---- MODULE Spec2Model ----
(***************************************************************************)
(* A model of app/gemini_client.py: the GeminiClient adapter that serves   *)
(* each store/document/file/search operation either through the native     *)
(* SDK interface or through raw HTTP requests, and turns every outcome     *)
(* into a tagged result dictionary.                                        *)
(*                                                                         *)
(* Python values are tagged records (one field naming the type), Python    *)
(* strings are sequences of text fragments, and a dictionary is a TLA+     *)
(* record from keys to Python values.  One adapter call runs at a time;    *)
(* every remote request is answered by a nondeterministic remote service.  *)
(***************************************************************************)
EXTENDS Integers, Sequences, FiniteSets, TLC

VARIABLES
    native,     \* hasattr(self.client, "file_search_stores") in this runtime
    api_key,    \* self.api_key, the credential the client was constructed with
    created,    \* the store the previous call created at the service, if any
    disk,       \* the local paths that exist
    route,      \* the upload route being served, if the call comes from one
    sdk_calls,  \* the calls of the native SDK interface the call has made
    logs,       \* what the call has logged at error level
    op,         \* the adapter method being executed ("idle" between calls)
    pc,         \* position inside the method: "idle", a loop label, or "done"
    args,       \* the arguments of the call
    clock,      \* time.time(), in seconds since the call started
    reqs,       \* the HTTP requests the call has issued, with their responses
    loc,        \* the method's local variables that live across requests
    polled,     \* the latest poll of an operation: when, where, and the answer
    outcome,    \* how the call ended: [returned |-> value] or [raised |-> exc]
    other       \* the call of another client handle in the same process, set aside

vars == <<native, api_key, created, other, disk, route, sdk_calls, logs, op, pc, args, clock, reqs, loc, polled, outcome, other>>

----------------------------------------------------------------------------
(* Bounds of the model                                                     *)

MaxLatency == 2     \* a remote round trip takes 1..MaxLatency seconds
MaxTimeout == 3     \* timeouts tried when _poll_operation is called directly
MaxInterval == 2    \* intervals tried when _poll_operation is called directly
MaxPages == 3       \* the remote listing has at most this many pages

Latencies == 1..MaxLatency

----------------------------------------------------------------------------
(* Python values                                                           *)

None == [none |-> TRUE]
PyStr(s) == [str |-> s]
PyInt(i) == [int |-> i]
PyBool(b) == [bool |-> b]
PyDict(d) == [dict |-> d]
PyList(l) == [list |-> l]

IsNone(v) == DOMAIN v = {"none"}
IsStr(v) == DOMAIN v = {"str"}
IsInt(v) == DOMAIN v = {"int"}
IsBool(v) == DOMAIN v = {"bool"}
IsDict(v) == DOMAIN v = {"dict"}
IsList(v) == DOMAIN v = {"list"}

EmptyDict == PyDict(<<>>)

\* bool(v): the truth value Python gives a value in `if v`, `a or b`, `not v`
Truthy(v) ==
    CASE IsNone(v) -> FALSE
      [] IsStr(v) -> v.str # <<>>
      [] IsInt(v) -> v.int # 0
      [] IsBool(v) -> v.bool
      [] IsDict(v) -> DOMAIN v.dict # {}
      [] IsList(v) -> v.list # <<>>

\* `fragment in text` for a string held as a sequence of fragments
Contains(text, fragment) == \E i \in 1..Len(text) : text[i] = fragment

\* text.startswith(prefix), the prefix being one fragment
StartsWith(text, prefix) == Len(text) > 0 /\ text[1] = prefix

\* a or b
Or(a, b) == IF Truthy(a) THEN a ELSE b

\* str(v) / f"{v}" of the values that reach a message
StrOf(v) ==
    CASE IsStr(v) -> v.str
      [] IsNone(v) -> <<"None">>
      [] IsInt(v) -> <<ToString(v.int)>>
      [] IsBool(v) -> <<IF v.bool THEN "True" ELSE "False">>
      [] IsDict(v) -> <<"{...}">>
      [] IsList(v) -> <<"[...]">>

----------------------------------------------------------------------------
(* Exceptions and the two ways a call ends                                 *)

Exc(type, msg) == [type |-> type, msg |-> msg]

Returned(value) == [returned |-> value]

\* self.logger.error(message, ...) followed by the way the method ends
Logged(message, o) == o @@ [logged |-> [level |-> "error", message |-> message]]
Raised(exc) == [raised |-> exc]
Pending == [pending |-> TRUE]

HasReturned == "returned" \in DOMAIN outcome
HasRaised == "raised" \in DOMAIN outcome

\* dict.get(key, default) on something that must be a dict: `ok` is false
\* where Python raises AttributeError (the value has no .get)
HasGet(v) == IsDict(v)
Get(v, key, default) == IF key \in DOMAIN v.dict THEN v.dict[key] ELSE default

AttributeError == Exc("AttributeError", <<"object has no attribute 'get'">>)
TypeError == Exc("TypeError", <<"argument is not iterable">>)

----------------------------------------------------------------------------
(* The remote service as the adapter sees it                               *)

BASE_URL == <<"https://generativelanguage.googleapis.com/v1beta", "/">>
UPLOAD_BASE_URL == <<"https://generativelanguage.googleapis.com/upload/v1beta", "/">>

\* requests.request(...) raising instead of answering
TransportExceptions == {Exc("ConnectionError", <<"connection refused">>)}

InvalidJson == [invalid |-> TRUE]    \* response.json() raises ValueError

HttpResponse(status, json, text) == [status |-> status, json |-> json, text |-> text]
IsHttp(r) == "status" \in DOMAIN r
IsTransportExc(r) == "type" \in DOMAIN r

\* Response.ok and Response.raise_for_status() of the requests library
Ok(r) == r.status < 400
HTTPError(r) == Exc("HTTPError", <<ToString(r.status), " Error">>)
JsonValueError == Exc("ValueError", <<"Expecting value">>)

\* the credentials the application may be configured with
ApiKeys == {<<"AIzaSyKey">>, <<"Bearer ", "ya29.token">>}

\* str.lower() of one fragment of a credential
LowerFragment(fragment) ==
    CASE fragment = "Bearer " -> "bearer "
      [] fragment = "BEARER " -> "bearer "
      [] fragment = ".MD" -> ".md"
      [] fragment = ".Markdown" -> ".markdown"
      [] OTHER -> fragment

Lower(text) == [i \in DOMAIN text |-> LowerFragment(text[i])]

is_bearer_token_case_sensitive(key) == StartsWith(key, "bearer ")

\* lines 62-63
_is_bearer_token(key) == StartsWith(Lower(key), "bearer ")

\* lines 65-68: query parameters are a set of <<name, value>> pairs, the
\* values being strings
_rest_params(key) == IF _is_bearer_token(key) THEN {} ELSE {<<"key", PyStr(key)>>}

\* lines 70-76
_rest_headers(key, json_body) ==
    (IF _is_bearer_token(key) THEN {<<"Authorization", PyStr(key)>>} ELSE {})
    \cup (IF json_body THEN {<<"Content-Type", PyStr(<<"application/json">>)>>} ELSE {})

\* dict.update: the entries of `params` replace those of `base` with their name
Updated(base, params) ==
    {p \in base : \A q \in params : q[1] # p[1]} \cup params

\* lines 78-101: a call of _rest_request with its arguments, and in `sent`
\* the query parameters and headers it hands to requests.request
Request(method, url, params, json_body) ==
    [method |-> method, url |-> url, params |-> params, json_body |-> json_body,
     sent |-> [params |-> Updated(_rest_params(api_key), params),
               headers |-> _rest_headers(api_key, ~IsNone(json_body))]]
NoParams == {}

\* one entry of reqs: the request and what came back
Exchange(request, response) == [request |-> request, response |-> response]

\* a computation that either yields a value or raises
Val(v) == [val |-> v]
Throw(e) == [exc |-> e]
Throws(x) == "exc" \in DOMAIN x

----------------------------------------------------------------------------
(* The state between calls                                                 *)

NoArgs == [no_args |-> TRUE]
NoLocals == [no_locals |-> TRUE]
NoPoll == [no_poll |-> TRUE]
NoRoute == [no_route |-> TRUE]

\* the local files: one that exists when a call begins and one that does not
LocalFile == <<"/data/", "report", ".pdf">>
MissingFile == <<"/data/", "gone", ".pdf">>
LocalFiles == {LocalFile}

exists_unchecked(file_path) == TRUE

\* Path(file_path).exists(), os.path.exists(file_path)
exists(file_path) == file_path \in disk

\* tempfile.NamedTemporaryFile(delete=False, suffix=suffix).name
NamedTemporaryFile(suffix) == <<"/tmp/", "tmpk3x9", suffix>>
TmpPath == NamedTemporaryFile(".pdf")

\* a call of the native SDK interface: the method called and how it ended
SdkCalled(method, x) ==
    sdk_calls' = Append(sdk_calls, [method |-> method, raised |-> "exc" \in DOMAIN x])

\* a call of the native SDK interface that takes a config
SdkCalledWith(method, config, x) ==
    sdk_calls' = Append(sdk_calls, [method |-> method, raised |-> "exc" \in DOMAIN x,
                                    config |-> config])

NotCreated == [not_created |-> TRUE]

\* no other call is in progress
NoHandle == [no_handle |-> TRUE]

Init ==
    /\ native \in BOOLEAN
    /\ api_key \in ApiKeys
    /\ created = NotCreated
    /\ disk = LocalFiles
    /\ route = NoRoute
    /\ sdk_calls = <<>>
    /\ logs = <<>>
    /\ op = "idle"
    /\ pc = "idle"
    /\ args = NoArgs
    /\ clock = 0
    /\ reqs = <<>>
    /\ loc = NoLocals
    /\ polled = NoPoll
    /\ outcome = Pending
    /\ other = NoHandle

\* a call begins: the method is entered with its arguments
Enter(method, arguments) ==
    /\ pc = "idle"
    /\ route # NoRoute =>
          /\ route.at = "call"
          /\ method = route.method
          /\ arguments = route.arguments
    /\ op' = method
    /\ args' = arguments
    /\ created' = IF method = "get_file_search_store" /\ created # NotCreated
                      /\ arguments.store_name = created.store_name
                   THEN created ELSE NotCreated
    /\ UNCHANGED <<native, api_key, other, disk, route>>

\* the call issues one more request and the round trip takes d seconds
Send(request, response, d) ==
    /\ reqs' = Append(reqs, Exchange(request, response))
    /\ clock' = clock + d
    /\ UNCHANGED sdk_calls

\* the method ends: by a return statement or by an exception leaving it
Finish(o) ==
    /\ pc' = "done"
    /\ loc' = NoLocals
    /\ outcome' = [k \in DOMAIN o \ {"logged"} |-> o[k]]
    /\ logs' = IF "logged" \in DOMAIN o THEN Append(logs, o.logged) ELSE logs

----------------------------------------------------------------------------
(* Names and messages used by the calls                                    *)

StoreNames == {<<"fileSearchStores/", "s1">>}
DocumentNames == {<<"d1">>, <<"fileSearchStores/", "s1", "/documents/", "d1">>}

NonEmptyMarker == "Cannot delete non-empty Document"

\* message texts the service sends
ServerMessages ==
    {<<>>, <<"NOT_FOUND">>, <<"FAILED_PRECONDITION: ", NonEmptyMarker, ".">>}

\* the body of an error response: what response.json() gives and response.text
ErrorBodies ==
    \* {"error": {"message": m}}
    {[json |-> PyDict([error |-> PyDict([message |-> PyStr(m)])]),
      text |-> <<"{error: {message: ">> \o m \o <<"}}">>] : m \in ServerMessages}
    \cup
    \* {"error": {"message": 7}}, {"error": {"details": ...}}, {}, {"error": "..."}, []
    {[json |-> PyDict([error |-> PyDict([message |-> PyInt(7)])]), text |-> <<"{error: {message: 7}}">>],
     [json |-> PyDict([error |-> PyDict([details |-> PyStr(<<NonEmptyMarker>>)])]),
      text |-> <<"{error: {details: ", NonEmptyMarker, "}}">>],
     [json |-> EmptyDict, text |-> <<"{}">>],
     [json |-> PyDict([error |-> PyStr(<<NonEmptyMarker>>)]), text |-> <<"{error: ", NonEmptyMarker, "}">>],
     [json |-> PyList(<<>>), text |-> <<"[]">>]}
    \cup
    \* a body that is not JSON, the empty body included
    {[json |-> InvalidJson, text |-> m] : m \in ServerMessages}

DeleteStatuses == {200, 202, 204, 404}

DeleteResponses ==
    {HttpResponse(s, b.json, b.text) : s \in DeleteStatuses, b \in ErrorBodies}
    \cup TransportExceptions

----------------------------------------------------------------------------
(* delete_store_document                                                   *)

\* lines 562-564: the resource the DELETE is sent to
document_resource(store_name, document_name) ==
    IF StartsWith(document_name, "fileSearchStores/")
    THEN document_name
    ELSE store_name \o <<"/documents/">> \o document_name

\* a message that prefers the raw text of the response to the server's message
delete_message_text_first(r) ==
    Val(IF r.text # <<>> THEN PyStr(r.text) ELSE PyStr(<<"HTTP ", ToString(r.status)>>))

\* lines 568-574 (and 590-595): the message of a rejected DELETE
delete_message(r) ==
    LET fallback == IF r.text # <<>> THEN PyStr(r.text)
                    ELSE PyStr(<<"HTTP ", ToString(r.status)>>)
    IN  IF r.json = InvalidJson
        THEN Val(fallback)                      \* except ValueError: error_detail = response.text
        ELSE IF ~HasGet(r.json) THEN Throw(AttributeError)
        ELSE LET err == Get(r.json, "error", EmptyDict)
             IN  IF ~HasGet(err) THEN Throw(AttributeError)
                 ELSE LET error_detail == Get(err, "message", None)
                      IN  Val(IF Truthy(error_detail) THEN error_detail ELSE fallback)

\* line 567 / 582: the statuses the method takes for a completed deletion
delete_succeeded(r) == r.status \in {200, 204}

reports_non_empty_never(message) ==
    IF IsStr(message) THEN Val(FALSE) ELSE Throw(TypeError)

reports_non_empty_always(message) ==
    IF IsStr(message) THEN Val(TRUE) ELSE Throw(TypeError)

\* line 576: whether the rejection is retried with force; raises on a non-text message
reports_non_empty(message) ==
    IF IsStr(message) THEN Val(Contains(message.str, NonEmptyMarker))
    ELSE Throw(TypeError)

\* lines 584-588, 600-604
delete_store_document_success(resource) ==
    [success |-> PyBool(TRUE),
     document_name |-> PyStr(resource),
     message |-> PyStr(<<"Document removed from store">>)]

\* lines 605-613: the method's exception handler
delete_store_document_except(e) ==
    Logged(<<"Error removing document ">> \o args'.document_name \o <<" from store ">>
               \o args'.store_name \o <<": ">> \o e.msg,
           Returned([success |-> PyBool(FALSE), error |-> PyStr(e.msg)]))

\* line 597
RemoveFailed(message) == Exc("RuntimeError", <<"Remove failed: ">> \o StrOf(message))

\* lines 559-576, 597-613: the call up to its first DELETE and what follows it
delete_store_document(store_name, document_name) ==
    /\ Enter("delete_store_document",
             [store_name |-> store_name, document_name |-> document_name])
    /\ \E r \in DeleteResponses, d \in Latencies :
         LET resource == document_resource(store_name, document_name)
             m == delete_message(r)
             retry == reports_non_empty(m.val)
         IN  /\ Send(Request("DELETE", BASE_URL \o resource, NoParams, None), r, d)
             /\ IF IsTransportExc(r) THEN Finish(delete_store_document_except(r))
                ELSE IF delete_succeeded(r)
                THEN Finish(Returned(delete_store_document_success(resource)))
                ELSE IF Throws(m) THEN Finish(delete_store_document_except(m.exc))
                ELSE IF Throws(retry) THEN Finish(delete_store_document_except(retry.exc))
                ELSE IF retry.val
                THEN /\ pc' = "delete_force"
                     /\ UNCHANGED logs
                     /\ loc' = [document_resource |-> resource]
                     /\ outcome' = Pending
                ELSE Finish(delete_store_document_except(RemoveFailed(m.val)))
    /\ UNCHANGED polled

\* lines 577-597: the same DELETE once more, with force=true
delete_store_document_force ==
    /\ pc = "delete_force"
    /\ UNCHANGED <<native, api_key, created, other, disk, route, sdk_calls, op, args, polled>>
    /\ \E r \in DeleteResponses, d \in Latencies :
         LET resource == loc.document_resource
             m == delete_message(r)
         IN  /\ Send(Request("DELETE", BASE_URL \o resource, {<<"force", PyStr(<<"true">>)>>}, None), r, d)
             /\ IF IsTransportExc(r) THEN Finish(delete_store_document_except(r))
                ELSE IF delete_succeeded(r)
                THEN Finish(Returned(delete_store_document_success(resource)))
                ELSE IF Throws(m) THEN Finish(delete_store_document_except(m.exc))
                ELSE Finish(delete_store_document_except(RemoveFailed(m.val)))

----------------------------------------------------------------------------
(* _poll_operation                                                         *)

DefaultPollTimeout == 180
DefaultPollInterval == 2

\* what the native SDK raises when the service rejects a call
SdkExceptions == {Exc("ClientError", <<"404 NOT_FOUND">>)}

OperationNames == {<<"operations/", "op1">>}

\* the operation resource as the service reports it: pending, completed, or
\* completed with an error (an error comes only with done=true)
OperationBodies ==
    {[json |-> PyDict([name |-> PyStr(n), done |-> PyBool(FALSE)]), text |-> <<"{name, done: false}">>]
        : n \in OperationNames}
    \cup
    {[json |-> PyDict([name |-> PyStr(n)]), text |-> <<"{name}">>] : n \in OperationNames}
    \cup
    {[json |-> PyDict([name |-> PyStr(n), done |-> PyBool(TRUE)]), text |-> <<"{name, done: true}">>]
        : n \in OperationNames}
    \cup
    {[json |-> PyDict([done |-> PyBool(TRUE), error |-> e]), text |-> <<"{done: true, error}">>]
        : e \in {PyDict([code |-> PyInt(3), message |-> PyStr(<<"Unsupported file">>)]),
                 PyDict([code |-> PyInt(13)]),
                 EmptyDict,
                 PyStr(<<"internal">>)}}
    \cup
    {[json |-> PyList(<<>>), text |-> <<"[]">>],
     [json |-> InvalidJson, text |-> <<"<html>">>]}

PollResponses ==
    {HttpResponse(s, b.json, b.text) : s \in {200}, b \in OperationBodies}
    \cup {HttpResponse(s, InvalidJson, <<"NOT_FOUND">>) : s \in {404}}
    \cup TransportExceptions

before_deadline_inclusive(now, deadline) == now <= deadline

\* line 105: the loop condition
before_deadline(now, deadline) == now < deadline

\* line 104: entering _poll_operation
start_poll(operation_name, timeout, interval) ==
    /\ pc' = "poll"
    /\ UNCHANGED logs
    /\ loc' = [operation_name |-> operation_name, timeout |-> timeout,
               interval |-> interval, deadline |-> clock' + timeout]
    /\ outcome' = Pending

operation_result_any_answer_is_done(r) ==
    IF IsTransportExc(r) THEN Throw(r)
    ELSE IF ~Ok(r) THEN Throw(HTTPError(r))
    ELSE IF r.json = InvalidJson THEN Throw(JsonValueError)
    ELSE IF ~HasGet(r.json) THEN Throw(AttributeError)
    ELSE LET error == Get(r.json, "error", None)
         IN  IF Truthy(error)
             THEN IF ~HasGet(error) THEN Throw(AttributeError)
                  ELSE Throw(Exc("RuntimeError",
                                 StrOf(Get(error, "message", PyStr(StrOf(error))))))
             ELSE Val(PyBool(TRUE))

operation_result_ignoring_error(r) ==
    IF IsTransportExc(r) THEN Throw(r)
    ELSE IF ~Ok(r) THEN Throw(HTTPError(r))
    ELSE IF r.json = InvalidJson THEN Throw(JsonValueError)
    ELSE IF ~HasGet(r.json) THEN Throw(AttributeError)
    ELSE IF Truthy(Get(r.json, "done", None)) THEN Val(PyBool(TRUE))
    ELSE Val(PyBool(FALSE))

\* lines 106-113: what one poll makes of its response: raise, return the
\* operation (val is True), or keep waiting (val is False)
operation_result(r) ==
    IF IsTransportExc(r) THEN Throw(r)
    ELSE IF ~Ok(r) THEN Throw(HTTPError(r))
    ELSE IF r.json = InvalidJson THEN Throw(JsonValueError)
    ELSE IF ~HasGet(r.json) THEN Throw(AttributeError)
    ELSE IF Truthy(Get(r.json, "done", None))
         THEN LET error == Get(r.json, "error", None)
              IN  IF Truthy(error)
                  THEN IF ~HasGet(error) THEN Throw(AttributeError)
                       ELSE Throw(Exc("RuntimeError",
                                      StrOf(Get(error, "message", PyStr(StrOf(error))))))
                  ELSE Val(PyBool(TRUE))
         ELSE Val(PyBool(FALSE))

\* line 115
PollTimeout(operation_name, timeout) ==
    Exc("TimeoutError",
        <<"Operation ">> \o operation_name
            \o <<" did not complete within ", ToString(timeout), "s">>)

\* lines 720-726
import_file_to_store_success(a) ==
    [success |-> PyBool(TRUE),
     file_id |-> PyStr(a.file_id),
     store_name |-> PyStr(a.store_name),
     message |-> PyStr(<<"File imported successfully">>)]

import_file_to_store_except_reraising(e) == Raised(e)

\* lines 730-735
import_file_to_store_except(e) ==
    Logged(<<"Error importing file ">> \o args'.file_id \o <<" to store ">>
               \o args'.store_name \o <<": ">> \o e.msg,
           Returned([success |-> PyBool(FALSE), error |-> PyStr(e.msg)]))

\* lines 803-809
upload_and_import_to_store_success(a) ==
    [success |-> PyBool(TRUE),
     store_name |-> PyStr(a.store_name),
     file_path |-> PyStr(a.file_path),
     message |-> PyStr(<<"File uploaded and imported successfully">>)]

\* lines 810-815
upload_and_import_to_store_except(e) ==
    Logged(<<"Error uploading and importing file ">> \o args'.file_path \o <<" to store ">>
               \o args'.store_name \o <<": ">> \o e.msg,
           Returned([success |-> PyBool(FALSE), error |-> PyStr(e.msg)]))

\* _poll_operation came back to the statement after the call (lines 719-726,
\* 801-809), or its exception reached the caller's handler
poll_returns(operation) ==
    CASE op = "import_file_to_store" -> Finish(Returned(import_file_to_store_success(args)))
      [] op = "upload_and_import_to_store" ->
            Finish(Returned(upload_and_import_to_store_success(args)))
      [] op = "_poll_operation" -> Finish(Returned(operation))

\* an import that goes on to its next endpoint when the polling raises
poll_raises_trying_next(e) ==
    CASE op = "import_file_to_store" ->
            /\ pc' = "import_post"
            /\ UNCHANGED logs
            /\ loc' = [index |-> Len(reqs) + 1, last_error |-> PyStr(e.msg)]
            /\ outcome' = Pending
      [] op = "upload_and_import_to_store" -> Finish(upload_and_import_to_store_except(e))
      [] op = "_poll_operation" -> Finish(Raised(e))

poll_raises(e) ==
    CASE op = "import_file_to_store" -> Finish(import_file_to_store_except(e))
      [] op = "upload_and_import_to_store" -> Finish(upload_and_import_to_store_except(e))
      [] op = "_poll_operation" -> Finish(Raised(e))

\* lines 105-113: one turn of the loop up to the sleep
poll_operation_request ==
    /\ pc = "poll"
    /\ UNCHANGED <<native, api_key, created, other, disk, route, sdk_calls, op, args, reqs>>
    /\ before_deadline(clock, loc.deadline)
    /\ \E r \in PollResponses, d \in Latencies :
         LET request == Request("GET", BASE_URL \o loc.operation_name, NoParams, None)
             x == operation_result(r)
         IN  /\ clock' = clock + d
             /\ polled' = [at |-> clock, deadline |-> loc.deadline,
                           request |-> request, response |-> r]
             /\ IF Throws(x) THEN poll_raises(x.exc)
                ELSE IF x.val.bool THEN poll_returns(r.json)
                ELSE /\ pc' = "sleep"
                     /\ UNCHANGED logs
                     /\ UNCHANGED <<loc, outcome>>

\* line 114
poll_operation_sleep ==
    /\ pc = "sleep"
    /\ pc' = "poll"
    /\ UNCHANGED logs
    /\ clock' = clock + loc.interval
    /\ UNCHANGED <<native, api_key, created, other, disk, route, sdk_calls, op, args, reqs, loc, polled, outcome>>

\* lines 105, 115: the loop condition fails
poll_operation_timeout ==
    /\ pc = "poll"
    /\ UNCHANGED <<native, api_key, created, other, disk, route, sdk_calls, op, args, clock, reqs, polled>>
    /\ ~before_deadline(clock, loc.deadline)
    /\ poll_raises(PollTimeout(loc.operation_name, loc.timeout))

\* _poll_operation called with its own timeout and interval
_poll_operation(operation_name, timeout, interval) ==
    /\ Enter("_poll_operation",
             [operation_name |-> operation_name, timeout |-> timeout, interval |-> interval])
    /\ clock' = clock
    /\ start_poll(operation_name, timeout, interval)
    /\ UNCHANGED <<reqs, polled, sdk_calls>>

----------------------------------------------------------------------------
(* import_file_to_store                                                    *)

FileIds == {<<"files/", "f1">>, <<"f1">>}

\* the imports asked for: an id with and without the "files/" prefix, with
\* and without custom metadata
ImportInputs ==
    {[file_id |-> <<"files/", "f1">>, metadata |-> None],
     [file_id |-> <<"f1">>, metadata |-> PyDict([author |-> PyStr(<<"a">>)])]}

\* how the service answers a POST that starts an import or an upload
StartBodies ==
    {[json |-> PyDict([name |-> PyStr(n)]), text |-> <<"{name}">>] : n \in OperationNames}
    \cup
    {[json |-> EmptyDict, text |-> <<"{}">>],
     [json |-> InvalidJson, text |-> <<>>],
     [json |-> InvalidJson, text |-> <<"<html>">>],
     [json |-> PyList(<<>>), text |-> <<"[]">>]}

StartResponses ==
    {HttpResponse(200, b.json, b.text) : b \in StartBodies}
    \cup {HttpResponse(404, InvalidJson, <<"NOT_FOUND">>), HttpResponse(400, InvalidJson, <<>>)}
    \cup TransportExceptions

endpoints_tried_again(store_name) ==
    <<BASE_URL \o store_name \o <<":importFile">>,
      BASE_URL \o store_name \o <<":import">>,
      BASE_URL \o store_name \o <<":importFile">> >>

endpoints_swapped(store_name) ==
    <<BASE_URL \o store_name \o <<":import">>,
      BASE_URL \o store_name \o <<":importFile">> >>

\* lines 707-710
endpoints(store_name) ==
    <<BASE_URL \o store_name \o <<":importFile">>,
      BASE_URL \o store_name \o <<":import">> >>

\* lines 699-705
import_payload(file_id, metadata) ==
    LET file_name == IF StartsWith(file_id, "files/") THEN file_id ELSE <<"files/">> \o file_id
    IN  IF Truthy(metadata)
        THEN PyDict([fileName |-> PyStr(file_name), customMetadata |-> metadata])
        ELSE PyDict([fileName |-> PyStr(file_name)])

\* line 716: response.json() if response.content else {}
import_data(r) ==
    IF r.text = <<>> THEN Val(EmptyDict)
    ELSE IF r.json = InvalidJson THEN Throw(JsonValueError)
    ELSE Val(r.json)

\* line 727
import_last_error(r) == PyStr(<<ToString(r.status), " ">> \o r.text)

\* line 729
ImportFailed(last_error) == Exc("RuntimeError", <<"Import failed: ">> \o StrOf(last_error))

\* lines 674-712: the call up to the loop over the endpoints; on the native
\* path the whole call
import_file_to_store(file_id, store_name, metadata) ==
    /\ Enter("import_file_to_store",
             [file_id |-> file_id, store_name |-> store_name, metadata |-> metadata])
    /\ IF native
       THEN \E x \in {Val(None)} \cup {Throw(e) : e \in SdkExceptions} :
               /\ SdkCalled("file_search_stores.import_file", x)
               /\ IF Throws(x) THEN Finish(import_file_to_store_except(x.exc))
                  ELSE Finish(Returned(import_file_to_store_success(args')))
       ELSE /\ pc' = "import_post"
            /\ UNCHANGED logs
            /\ loc' = [index |-> 1, last_error |-> None]
            /\ outcome' = Pending
            /\ UNCHANGED sdk_calls
    /\ UNCHANGED <<clock, reqs, polled>>

\* lines 713-729: one turn of the loop over the endpoints
import_file_to_store_post ==
    /\ pc = "import_post"
    /\ UNCHANGED <<native, api_key, created, other, disk, route, sdk_calls, op, args, polled>>
    /\ IF loc.index > Len(endpoints(args.store_name))
       THEN /\ Finish(import_file_to_store_except(ImportFailed(loc.last_error)))
            /\ UNCHANGED <<clock, reqs>>
       ELSE \E r \in StartResponses, d \in Latencies :
              LET endpoint == endpoints(args.store_name)[loc.index]
                  data == import_data(r)
              IN  /\ Send(Request("POST", endpoint, NoParams,
                                  import_payload(args.file_id, args.metadata)), r, d)
                  /\ IF IsTransportExc(r) THEN Finish(import_file_to_store_except(r))
                     ELSE IF ~Ok(r)
                     THEN /\ pc' = "import_post"
                          /\ UNCHANGED logs
                          /\ loc' = [index |-> loc.index + 1, last_error |-> import_last_error(r)]
                          /\ outcome' = Pending
                     ELSE IF Throws(data) THEN Finish(import_file_to_store_except(data.exc))
                     ELSE IF ~HasGet(data.val)
                     THEN Finish(import_file_to_store_except(AttributeError))
                     ELSE IF Truthy(Get(data.val, "name", None))
                     THEN start_poll(StrOf(Get(data.val, "name", None)),
                                     DefaultPollTimeout, DefaultPollInterval)
                     ELSE Finish(Returned(import_file_to_store_success(args)))

----------------------------------------------------------------------------
(* upload_and_import_to_store                                              *)

FilePaths == {LocalFile, MissingFile, TmpPath}

\* the file and the display name of an upload: the name left out, the name
\* the route passes, names with a Markdown extension and a name with none
UploadInputs ==
    {[file_path |-> f, display_name |-> None] : f \in {LocalFile, MissingFile}}
    \cup {[file_path |-> TmpPath, display_name |-> PyStr(<<"report", ".pdf">>)]}
    \cup {[file_path |-> LocalFile, display_name |-> PyStr(n)] :
             n \in {<<"notes", ".MD">>, <<"README", ".markdown">>, <<"data">>}}

\* os.path.basename(file_path)
basename(file_path) == Tail(file_path)

\* os.path.splitext(file_name)[1]: nothing for a name that is one piece
extension_of(file_name) == IF Len(file_name) >= 2 THEN file_name[Len(file_name)] ELSE ""

\* what mimetypes.guess_type(file_name)[0] may return, the type maps it reads
\* differing from one platform to the next: a Markdown type or nothing for a
\* Markdown name, the registered type for a PDF, nothing for a bare name
guess_type(file_name) ==
    CASE extension_of(file_name) = ".MD" -> {None, PyStr(<<"text/markdown">>)}
      [] extension_of(file_name) = ".markdown" -> {PyStr(<<"text/x-markdown">>)}
      [] extension_of(file_name) = ".pdf" -> {PyStr(<<"application/pdf">>)}
      [] OTHER -> {None}

\* a choice of the type that compares the extension as it is written
mime_type_case_sensitive(file_name, guessed) ==
    IF extension_of(file_name) \in {".md", ".markdown"}
    THEN PyStr(<<"text/plain">>)
    ELSE Or(guessed, PyStr(<<"application/octet-stream">>))

\* lines 778-781
mime_type_of(file_name, guessed) ==
    IF LowerFragment(extension_of(file_name)) \in {".md", ".markdown"}
    THEN PyStr(<<"text/plain">>)
    ELSE Or(guessed, PyStr(<<"application/octet-stream">>))

\* lines 777-788: the multipart body of the upload
upload_files(file_path, display_name, guessed) ==
    LET file_name == Or(display_name, PyStr(basename(file_path)))
    IN  [metadata |-> PyDict([displayName |-> file_name]),
         file |-> [name |-> file_name, mime_type |-> mime_type_of(file_name.str, guessed)]]

\* requests.request(..., files=files)
Multipart(request, files) == request @@ [files |-> files]

file_not_found_unlogged(file_path) ==
    Returned([success |-> PyBool(FALSE), error |-> PyStr(<<"File not found: ">> \o file_path)])

\* lines 753-756
file_not_found(file_path) ==
    Logged(<<"File not found: ">> \o file_path,
           Returned([success |-> PyBool(FALSE), error |-> PyStr(<<"File not found: ">> \o file_path)]))

\* lines 749-815 up to the call of _poll_operation
upload_and_import_to_store(file_path, store_name, display_name) ==
    /\ Enter("upload_and_import_to_store",
             [file_path |-> file_path, store_name |-> store_name, display_name |-> display_name])
    /\ UNCHANGED polled
    /\ IF ~exists(file_path)
       THEN Finish(file_not_found(file_path)) /\ UNCHANGED <<clock, reqs, sdk_calls>>
       ELSE IF native
       THEN /\ \E x \in {Val(None)} \cup {Throw(e) : e \in SdkExceptions} :
                 /\ SdkCalled("file_search_stores.upload_to_file_search_store", x)
                 /\ IF Throws(x) THEN Finish(upload_and_import_to_store_except(x.exc))
                    ELSE Finish(Returned(upload_and_import_to_store_success(args')))
            /\ UNCHANGED <<clock, reqs>>
       ELSE \E r \in StartResponses, d \in Latencies,
               guessed \in guess_type(Or(display_name, PyStr(basename(file_path))).str) :
              LET upload_url == UPLOAD_BASE_URL \o store_name \o <<":uploadToFileSearchStore">>
              IN  /\ Send(Multipart(Request("POST", upload_url,
                                            {<<"uploadType", PyStr(<<"multipart">>)>>}, None),
                                    upload_files(file_path, display_name, guessed)), r, d)
                  /\ IF IsTransportExc(r) THEN Finish(upload_and_import_to_store_except(r))
                     ELSE IF ~Ok(r) THEN Finish(upload_and_import_to_store_except(HTTPError(r)))
                     ELSE IF r.json = InvalidJson
                     THEN Finish(upload_and_import_to_store_except(JsonValueError))
                     ELSE IF ~HasGet(r.json)
                     THEN Finish(upload_and_import_to_store_except(AttributeError))
                     ELSE IF Truthy(Get(r.json, "name", None))
                     THEN start_poll(StrOf(Get(r.json, "name", None)),
                                     DefaultPollTimeout, DefaultPollInterval)
                     ELSE Finish(Returned(upload_and_import_to_store_success(args')))

----------------------------------------------------------------------------
(* Response normalization                                                  *)

MaxCount == 12      \* numeric text up to this value is read back as a number

\* a lookup that stops at the first listed key the dict holds, null or not
_pick_first_present(data, keys) ==
    LET held == {i \in DOMAIN keys : IsDict(data) /\ keys[i] \in DOMAIN data.dict}
    IN  IF held = {} THEN None
        ELSE data.dict[keys[CHOOSE i \in held : \A j \in held : i <= j]]

\* a lookup in which the alias listed last wins
_pick_last_match(data, keys) ==
    LET held == {i \in DOMAIN keys : /\ IsDict(data)
                                     /\ keys[i] \in DOMAIN data.dict
                                     /\ ~IsNone(data.dict[keys[i]])}
    IN  IF held = {} THEN None
        ELSE data.dict[keys[CHOOSE i \in held : \A j \in held : j <= i]]

\* lines 35-39: the first listed key that the dict holds with a non-null value
\* (no key is `in` an empty JSON array, the one other shape that gets here)
RECURSIVE _pick(_, _)
_pick(data, keys) ==
    IF keys = <<>> \/ ~IsDict(data) THEN None
    ELSE IF Head(keys) \in DOMAIN data.dict /\ ~IsNone(data.dict[Head(keys)])
         THEN data.dict[Head(keys)]
         ELSE _pick(data, Tail(keys))

\* int(text): the number a decimal text denotes; raises ValueError otherwise
IsNumeral(text) == Len(text) = 1 /\ \E n \in 0..MaxCount : ToString(n) = text[1]
NumeralValue(text) == CHOOSE n \in 0..MaxCount : ToString(n) = text[1]

\* a conversion that hands a missing value on instead of the default
_as_int_or_missing(value, default) ==
    CASE IsNone(value) -> value
      [] IsInt(value) -> value
      [] IsBool(value) -> PyInt(IF value.bool THEN 1 ELSE 0)
      [] IsStr(value) -> IF IsNumeral(value.str) THEN PyInt(NumeralValue(value.str)) ELSE default
      [] OTHER -> default

\* lines 26-32
_as_int(value, default) ==
    CASE IsNone(value) -> default
      [] IsInt(value) -> value
      [] IsBool(value) -> PyInt(IF value.bool THEN 1 ELSE 0)
      [] IsStr(value) -> IF IsNumeral(value.str) THEN PyInt(NumeralValue(value.str)) ELSE default
      [] OTHER -> default

\* str(x) if x else None (lines 121-122, 141-142)
StrOrNone(value) == IF Truthy(value) THEN PyStr(StrOf(value)) ELSE None

\* lines 117-127
_normalize_store(store) ==
    PyDict([store_name |-> _pick(store, <<"name", "store_name", "storeName">>),
            display_name |-> _pick(store, <<"displayName", "display_name">>),
            create_time |-> StrOrNone(_pick(store, <<"createTime", "create_time">>)),
            update_time |-> StrOrNone(_pick(store, <<"updateTime", "update_time">>)),
            active_documents_count |->
                _as_int(_pick(store, <<"activeDocumentCount", "activeDocumentsCount",
                                       "active_documents_count">>), PyInt(0)),
            pending_documents_count |->
                _as_int(_pick(store, <<"pendingDocumentCount", "pendingDocumentsCount",
                                       "pending_documents_count">>), PyInt(0)),
            failed_documents_count |->
                _as_int(_pick(store, <<"failedDocumentCount", "failedDocumentsCount",
                                       "failed_documents_count">>), PyInt(0)),
            size_bytes |-> _as_int(_pick(store, <<"sizeBytes", "size_bytes">>), PyInt(0))])

----------------------------------------------------------------------------
(* list_file_search_stores                                                 *)

\* store resources as the REST service sends them
RestStoreA ==
    PyDict([name |-> PyStr(<<"fileSearchStores/", "a">>),
            displayName |-> PyStr(<<"A">>),
            createTime |-> PyStr(<<"2025-01-01T00:00:00Z">>),
            activeDocumentCount |-> PyStr(<<"5">>),
            sizeBytes |-> PyStr(<<"12">>)])
RestStoreB ==
    PyDict([name |-> PyStr(<<"fileSearchStores/", "b">>),
            displayName |-> PyStr(<<"B">>),
            activeDocumentsCount |-> PyInt(9),
            updateTime |-> None])
RestStoreC ==
    PyDict([name |-> PyStr(<<"fileSearchStores/", "c">>)])

\* response.json() on a JSON object: the members in the order the body lists
\* them, a later member replacing an earlier one of the same key
json_object(members) ==
    PyDict([key \in {members[i][1] : i \in DOMAIN members} |->
               members[CHOOSE i \in DOMAIN members :
                          /\ members[i][1] = key
                          /\ \A j \in DOMAIN members : members[j][1] = key => j <= i][2]])

\* the keys of a body in the order it lists them
KeysInOrder(members) == [i \in DOMAIN members |-> members[i][1]]

Reverse(members) == [i \in DOMAIN members |-> members[Len(members) + 1 - i]]

\* a store resource that carries several aliases of its fields, with
\* different values, a null and a text that is no number among them
RestStoreD ==
    <<<<"name", PyStr(<<"fileSearchStores/", "d">>)>>,
      <<"display_name", PyStr(<<"d">>)>>,
      <<"displayName", PyStr(<<"D">>)>>,
      <<"active_documents_count", PyInt(7)>>,
      <<"activeDocumentsCount", PyInt(9)>>,
      <<"activeDocumentCount", PyInt(5)>>,
      <<"pending_documents_count", PyInt(4)>>,
      <<"pendingDocumentCount", None>>,
      <<"failed_documents_count", PyInt(2)>>,
      <<"failedDocumentsCount", PyStr(<<"many">>)>>,
      <<"size_bytes", PyInt(1)>>,
      <<"sizeBytes", PyStr(<<"12">>)>>>>

\* store objects as the native SDK yields them: every attribute exists, unset
\* ones hold None
NativeStores ==
    {[name |-> PyStr(<<"fileSearchStores/", "a">>), display_name |-> PyStr(<<"A">>),
      create_time |-> PyStr(<<"2025-01-01 00:00:00+00:00">>), update_time |-> None,
      active_documents_count |-> PyInt(5), pending_documents_count |-> None,
      failed_documents_count |-> None, size_bytes |-> PyInt(12)],
     [name |-> PyStr(<<"fileSearchStores/", "b">>), display_name |-> None,
      create_time |-> None, update_time |-> None,
      active_documents_count |-> None, pending_documents_count |-> None,
      failed_documents_count |-> None, size_bytes |-> None]}

NativeStoreLists == {<<>>} \cup {<<a>> : a \in NativeStores} \cup {<<a, b>> : a, b \in NativeStores}

PageTokens == {<<"t1">>, <<"t2">>}

\* the store lists a page can hold
PageItems == {<<>>, <<RestStoreA>>, <<RestStoreB, PyStr(<<"junk">>), RestStoreC>>}

\* a page of the listing: its stores and, unless it is the last, a token
PageBodies ==
    {[json |-> PyDict([fileSearchStores |-> PyList(i), nextPageToken |-> PyStr(t)]),
      text |-> <<"{fileSearchStores, nextPageToken}">>] : i \in PageItems, t \in PageTokens}
    \cup
    {[json |-> PyDict([fileSearchStores |-> PyList(i)]), text |-> <<"{fileSearchStores}">>]
        : i \in PageItems}
    \cup
    {[json |-> PyDict([stores |-> PyList(<<RestStoreC>>), nextPageToken |-> PyStr(<<>>)]),
      text |-> <<"{stores, nextPageToken: ''}">>],
     [json |-> EmptyDict, text |-> <<"{}">>],
     [json |-> PyDict([fileSearchStores |-> PyInt(7)]), text |-> <<"{fileSearchStores: 7}">>],
     [json |-> PyList(<<>>), text |-> <<"[]">>],
     [json |-> InvalidJson, text |-> <<"<html>">>]}

PageResponses ==
    {HttpResponse(200, b.json, b.text) : b \in PageBodies}
    \cup {HttpResponse(503, InvalidJson, <<"UNAVAILABLE">>)}
    \cup TransportExceptions

\* the continuation token a page response carries, None when it carries none
ServerToken(r) ==
    IF IsHttp(r) /\ Ok(r) /\ r.json # InvalidJson /\ IsDict(r.json)
    THEN Get(r.json, "nextPageToken", None)
    ELSE None

\* lines 316-325
native_store_info(store) ==
    LET count(v) == IF ~IsNone(v) THEN v ELSE PyInt(0)
    IN  PyDict([store_name |-> store.name,
                display_name |-> store.display_name,
                create_time |-> PyStr(StrOf(store.create_time)),
                update_time |-> PyStr(StrOf(store.update_time)),
                active_documents_count |-> count(store.active_documents_count),
                pending_documents_count |-> count(store.pending_documents_count),
                failed_documents_count |-> count(store.failed_documents_count),
                size_bytes |-> count(store.size_bytes)])

\* lines 348-353
list_file_search_stores_success(store_list, next_page_token) ==
    [success |-> PyBool(TRUE),
     stores |-> PyList(store_list),
     count |-> PyInt(Len(store_list)),
     next_page_token |-> next_page_token]

\* a handler that hands on what the page loop had gathered
list_file_search_stores_except_partial(e) ==
    Logged(<<"Error listing FileSearchStores: ">> \o e.msg,
           Returned([success |-> PyBool(FALSE), error |-> PyStr(e.msg),
                     stores |-> PyList(IF pc = "list_page" THEN loc.store_list ELSE <<>>)]))

\* lines 354-360
list_file_search_stores_except(e) ==
    Logged(<<"Error listing FileSearchStores: ">> \o e.msg,
           Returned([success |-> PyBool(FALSE), error |-> PyStr(e.msg), stores |-> PyList(<<>>)]))

list_stores_natively_unless_bearer(page_token, all_pages) ==
    native /\ ~_is_bearer_token(api_key) /\ ~Truthy(page_token) /\ ~all_pages

list_stores_natively_when_unavailable(page_token, all_pages) ==
    ~native /\ ~Truthy(page_token) /\ ~all_pages

\* line 313
list_stores_natively(page_token, all_pages) ==
    native /\ ~Truthy(page_token) /\ ~all_pages

\* lines 307-328: the call up to the page loop; on the native path the whole call
list_file_search_stores(page_token, all_pages) ==
    /\ Enter("list_file_search_stores", [page_token |-> page_token, all_pages |-> all_pages])
    /\ UNCHANGED <<clock, reqs, polled>>
    /\ IF list_stores_natively(page_token, all_pages)
       THEN \E x \in {Val(l) : l \in NativeStoreLists} \cup {Throw(e) : e \in SdkExceptions} :
               /\ SdkCalled("file_search_stores.list", x)
               /\ IF Throws(x) THEN Finish(list_file_search_stores_except(x.exc))
                  ELSE Finish(Returned(list_file_search_stores_success(
                           [i \in 1..Len(x.val) |-> native_store_info(x.val[i])], None)))
       ELSE /\ pc' = "list_page"
            /\ UNCHANGED logs
            /\ loc' = [token |-> page_token, store_list |-> <<>>]
            /\ outcome' = Pending
            /\ UNCHANGED sdk_calls

\* parameters that repeat the token the call was given
page_params_of_the_call(token) ==
    IF Truthy(args.page_token) THEN {<<"pageToken", args.page_token>>} ELSE NoParams

\* lines 329-331
page_params(token) == IF Truthy(token) THEN {<<"pageToken", token>>} ELSE NoParams

\* line 336
page_stores(data) ==
    LET a == Get(data, "fileSearchStores", None)
        b == Get(data, "stores", None)
    IN  IF Truthy(a) THEN a ELSE IF Truthy(b) THEN b ELSE PyList(<<>>)

RECURSIVE normalized_dicts(_)
\* lines 337-339: the page's store objects, normalized, in order
normalized_dicts(stores) ==
    IF stores = <<>> THEN <<>>
    ELSE IF IsDict(Head(stores))
         THEN <<_normalize_store(Head(stores))>> \o normalized_dicts(Tail(stores))
         ELSE normalized_dicts(Tail(stores))

extended_overwriting(store_list, stores) == normalized_dicts(stores)

\* lines 337-339: store_list after the page's stores were appended to it
extended(store_list, stores) == store_list \o normalized_dicts(stores)

last_page_without_all_pages(all_pages, token) == ~Truthy(token)

\* a loop that gives up after its second page
last_page_after_two(all_pages, token) == ~all_pages \/ ~Truthy(token) \/ Len(reqs) >= 1

\* line 343: whether the page just read is the last one to fetch
last_page(all_pages, token) == ~all_pages \/ ~Truthy(token)

\* lines 332-353: what the answer r to a page request leads to, for the
\* locals l of the loop: the end of the call or the locals of the next turn
page_turn(all_pages, l, r) ==
    IF IsTransportExc(r) THEN [ends |-> list_file_search_stores_except(r)]
    ELSE IF ~Ok(r) THEN [ends |-> list_file_search_stores_except(HTTPError(r))]
    ELSE IF r.json = InvalidJson THEN [ends |-> list_file_search_stores_except(JsonValueError)]
    ELSE IF ~HasGet(r.json) THEN [ends |-> list_file_search_stores_except(AttributeError)]
    ELSE IF ~IsList(page_stores(r.json))
    THEN [ends |-> list_file_search_stores_except(TypeError)]
    ELSE LET store_list == extended(l.store_list, page_stores(r.json).list)
             token == Get(r.json, "nextPageToken", None)
         IN  IF last_page(all_pages, token)
             THEN [ends |-> Returned(list_file_search_stores_success(store_list, token))]
             ELSE [goes_on |-> [token |-> token, store_list |-> store_list]]

\* lines 329-353: one turn of the page loop, the service answering with one of
\* `responses` after one of `latencies`
fetch_page(responses, latencies) ==
    /\ pc = "list_page"
    /\ UNCHANGED <<native, api_key, created, other, disk, route, sdk_calls, op, args, polled>>
    /\ \E r \in responses, d \in latencies :
         \* the listing has at most MaxPages pages
         /\ Len(reqs) + 1 >= MaxPages => ~Truthy(ServerToken(r))
         /\ Send(Request("GET", BASE_URL \o <<"fileSearchStores">>, page_params(loc.token), None), r, d)
         /\ LET turn == page_turn(args.all_pages, loc, r)
            IN  IF "ends" \in DOMAIN turn THEN Finish(turn.ends)
                ELSE /\ pc' = "list_page"
                     /\ UNCHANGED logs
                     /\ loc' = turn.goes_on
                     /\ outcome' = Pending

list_file_search_stores_page == fetch_page(PageResponses, Latencies)

----------------------------------------------------------------------------
(* create_file_search_store, get_file_search_store, delete_file_search_store *)

DisplayNames == {<<"My store">>, <<" padded ">>}

\* what the native SDK call does: return one of `values` or raise
SdkCall(values) == {Val(v) : v \in values} \cup {Throw(e) : e \in SdkExceptions}

\* a store resource in a response body, well formed or not
StoreBodies ==
    {[json |-> RestStoreA, text |-> <<"{store a}">>],
     [json |-> RestStoreB, text |-> <<"{store b}">>],
     [json |-> EmptyDict, text |-> <<"{}">>],
     [json |-> PyList(<<>>), text |-> <<"[]">>],
     [json |-> InvalidJson, text |-> <<"<html>">>]}
    \cup {[json |-> json_object(members), text |-> KeysInOrder(members)] :
             members \in {RestStoreD, Reverse(RestStoreD)}}

StoreResponses ==
    {HttpResponse(200, b.json, b.text) : b \in StoreBodies}
    \cup {HttpResponse(s, b.json, b.text) : s \in {404}, b \in ErrorBodies}
    \cup TransportExceptions

\* response.raise_for_status(); response.json()
checked_json(r) ==
    IF IsTransportExc(r) THEN Throw(r)
    ELSE IF ~Ok(r) THEN Throw(HTTPError(r))
    ELSE IF r.json = InvalidJson THEN Throw(JsonValueError)
    ELSE Val(r.json)

\* lines 264-270
create_native_result(store) ==
    [success |-> PyBool(TRUE),
     store_name |-> store.name,
     display_name |-> store.display_name,
     create_time |-> PyStr(StrOf(store.create_time)),
     update_time |-> PyStr(StrOf(store.update_time))]

\* lines 282-288
create_rest_result(normalized) ==
    [success |-> PyBool(TRUE),
     store_name |-> normalized.dict.store_name,
     display_name |-> normalized.dict.display_name,
     create_time |-> normalized.dict.create_time,
     update_time |-> normalized.dict.update_time]

\* lines 289-294
create_file_search_store_except(e) ==
    Logged(<<"Error creating FileSearchStore: ">> \o e.msg,
           Returned([success |-> PyBool(FALSE), error |-> PyStr(e.msg)]))

\* lines 259-261: the config of the native call
create_config(display_name) == [display_name |-> PyStr(display_name)]

\* a body that names every store alike
create_body_untitled(display_name) == PyDict([displayName |-> PyStr(<<"Untitled">>)])

\* lines 274-278: the body of the POST
create_body(display_name) == PyDict([displayName |-> PyStr(display_name)])

\* lines 255-294
create_file_search_store(display_name) ==
    /\ Enter("create_file_search_store", [display_name |-> display_name])
    /\ UNCHANGED polled
    /\ IF native
       THEN /\ \E x \in SdkCall(NativeStores) :
                 /\ SdkCalledWith("file_search_stores.create", create_config(display_name), x)
                 /\ IF Throws(x) THEN Finish(create_file_search_store_except(x.exc))
                    ELSE Finish(Returned(create_native_result(x.val)))
            /\ UNCHANGED <<clock, reqs>>
       ELSE \E r \in StoreResponses, d \in Latencies :
              LET store == checked_json(r)
              IN  /\ Send(Request("POST", BASE_URL \o <<"fileSearchStores">>, NoParams,
                                  create_body(display_name)), r, d)
                  /\ IF Throws(store) THEN Finish(create_file_search_store_except(store.exc))
                     ELSE Finish(Returned(create_rest_result(_normalize_store(store.val))))

\* lines 379-389
get_native_result(store) ==
    LET info == native_store_info(store).dict
    IN  [success |-> PyBool(TRUE),
         store_name |-> info.store_name,
         display_name |-> info.display_name,
         create_time |-> info.create_time,
         update_time |-> info.update_time,
         active_documents_count |-> info.active_documents_count,
         pending_documents_count |-> info.pending_documents_count,
         failed_documents_count |-> info.failed_documents_count,
         size_bytes |-> info.size_bytes]

\* lines 397-407
get_rest_result(normalized) ==
    [success |-> PyBool(TRUE),
     store_name |-> normalized.dict.store_name,
     display_name |-> normalized.dict.display_name,
     create_time |-> normalized.dict.create_time,
     update_time |-> normalized.dict.update_time,
     active_documents_count |-> normalized.dict.active_documents_count,
     pending_documents_count |-> normalized.dict.pending_documents_count,
     failed_documents_count |-> normalized.dict.failed_documents_count,
     size_bytes |-> normalized.dict.size_bytes]

\* lines 408-413
get_file_search_store_except(e) ==
    Logged(<<"Error getting FileSearchStore ">> \o args'.store_name \o <<": ">> \o e.msg,
           Returned([success |-> PyBool(FALSE), error |-> PyStr(e.msg)]))

\* the store the service holds after a creation, as its REST interface and
\* as the native SDK present it: under the name it gave it, with the display
\* name it received
ServiceStore(c) == PyDict([name |-> PyStr(c.store_name), displayName |-> c.display_name])
NativeServiceStore(c) ==
    [name |-> PyStr(c.store_name), display_name |-> c.display_name,
     create_time |-> None, update_time |-> None,
     active_documents_count |-> None, pending_documents_count |-> None,
     failed_documents_count |-> None, size_bytes |-> None]

IsCreated(store_name) == created # NotCreated /\ store_name = created.store_name

\* how the service answers a GET of a store: for the store just created, with
\* that store or a failure; for any other name, in any way
StoreAnswers(store_name) ==
    IF IsCreated(store_name)
    THEN {HttpResponse(200, ServiceStore(created), <<"{store}">>)}
         \cup (StoreResponses \ {HttpResponse(200, b.json, b.text) : b \in StoreBodies})
    ELSE StoreResponses
NativeStoreAnswers(store_name) ==
    IF IsCreated(store_name) THEN {NativeServiceStore(created)} ELSE NativeStores

\* lines 372-413
get_file_search_store(store_name) ==
    /\ Enter("get_file_search_store", [store_name |-> store_name])
    /\ UNCHANGED polled
    /\ IF native
       THEN /\ \E x \in SdkCall(NativeStoreAnswers(store_name)) :
                 /\ SdkCalled("file_search_stores.get", x)
                 /\ IF Throws(x) THEN Finish(get_file_search_store_except(x.exc))
                    ELSE Finish(Returned(get_native_result(x.val)))
            /\ UNCHANGED <<clock, reqs>>
       ELSE \E r \in StoreAnswers(store_name), d \in Latencies :
              LET store == checked_json(r)
              IN  /\ Send(Request("GET", BASE_URL \o store_name, NoParams, None), r, d)
                  /\ IF Throws(store) THEN Finish(get_file_search_store_except(store.exc))
                     ELSE Finish(Returned(get_rest_result(_normalize_store(store.val))))

\* lines 432-435, 449-452
delete_file_search_store_success(store_name) ==
    [success |-> PyBool(TRUE),
     message |-> PyStr(<<"FileSearchStore ">> \o store_name \o <<" deleted successfully">>)]

\* lines 453-458
delete_file_search_store_except(e) ==
    Logged(<<"Error deleting FileSearchStore ">> \o args'.store_name \o <<": ">> \o e.msg,
           Returned([success |-> PyBool(FALSE), error |-> PyStr(e.msg)]))

\* line 446
DeleteFailed(message) == Exc("RuntimeError", <<"Delete failed: ">> \o StrOf(message))

\* lines 425-458
delete_file_search_store(store_name) ==
    /\ Enter("delete_file_search_store", [store_name |-> store_name])
    /\ UNCHANGED polled
    /\ IF native
       THEN /\ \E x \in SdkCall({None}) :
                 /\ SdkCalled("file_search_stores.delete", x)
                 /\ IF Throws(x) THEN Finish(delete_file_search_store_except(x.exc))
                    ELSE Finish(Returned(delete_file_search_store_success(store_name)))
            /\ UNCHANGED <<clock, reqs>>
       ELSE \E r \in DeleteResponses, d \in Latencies :
              LET m == delete_message(r)
              IN  /\ Send(Request("DELETE", BASE_URL \o store_name, NoParams, None), r, d)
                  /\ IF IsTransportExc(r) THEN Finish(delete_file_search_store_except(r))
                     ELSE IF delete_succeeded(r)
                     THEN Finish(Returned(delete_file_search_store_success(store_name)))
                     ELSE IF Throws(m) THEN Finish(delete_file_search_store_except(m.exc))
                     ELSE Finish(delete_file_search_store_except(DeleteFailed(m.val)))

----------------------------------------------------------------------------
(* list_documents_in_store                                                 *)

\* lines 129-145
_normalize_document(doc) ==
    LET file_ref == _pick(doc, <<"file", "fileId", "file_id", "fileName", "file_name", "source">>)
        file_id == IF IsDict(file_ref)
                   THEN _pick(file_ref, <<"name", "fileId", "file_id", "id", "file">>)
                   ELSE IF IsStr(file_ref) THEN file_ref ELSE None
    IN  PyDict([document_name |-> _pick(doc, <<"name", "document_name", "documentName">>),
                display_name |-> _pick(doc, <<"displayName", "display_name">>),
                mime_type |-> _pick(doc, <<"mimeType", "mime_type">>),
                create_time |-> StrOrNone(_pick(doc, <<"createTime", "create_time">>)),
                update_time |-> StrOrNone(_pick(doc, <<"updateTime", "update_time">>)),
                size_bytes |-> _as_int(_pick(doc, <<"sizeBytes", "size_bytes">>), PyInt(0)),
                file_id |-> file_id])

\* document resources as the REST service sends them
RestDocA ==
    PyDict([name |-> PyStr(<<"fileSearchStores/", "s1", "/documents/", "d1">>),
            displayName |-> PyStr(<<"report.pdf">>),
            mimeType |-> PyStr(<<"application/pdf">>),
            createTime |-> PyStr(<<"2025-01-01T00:00:00Z">>),
            sizeBytes |-> PyStr(<<"7">>),
            file |-> PyDict([name |-> PyStr(<<"files/", "f1">>)])])
RestDocB ==
    PyDict([name |-> PyStr(<<"fileSearchStores/", "s1", "/documents/", "d2">>),
            fileName |-> PyStr(<<"files/", "f2">>)])
\* a document resource whose fields are null or of no use
RestDocC ==
    PyDict([name |-> PyStr(<<"fileSearchStores/", "s1", "/documents/", "d3">>),
            displayName |-> None,
            mime_type |-> None,
            createTime |-> PyStr(<<>>),
            sizeBytes |-> None,
            size_bytes |-> PyStr(<<"large">>),
            file |-> PyDict([uri |-> PyStr(<<"https://files/f3">>)])])

\* a document resource that holds a null under the first alias of a field and
\* a value under a later one
RestDocD ==
    PyDict([documentName |-> PyStr(<<"fileSearchStores/", "s1", "/documents/", "d4">>),
            displayName |-> None,
            display_name |-> PyStr(<<"notes.md">>),
            mimeType |-> PyStr(<<"text/plain">>),
            mime_type |-> PyStr(<<"application/pdf">>)])

\* document objects as the native SDK yields them; an attribute the object
\* lacks is a key the record lacks
NativeDocs ==
    {[name |-> PyStr(<<"fileSearchStores/", "s1", "/documents/", "d1">>),
      display_name |-> PyStr(<<"report.pdf">>), mime_type |-> PyStr(<<"application/pdf">>),
      create_time |-> PyStr(<<"2025-01-01 00:00:00+00:00">>), update_time |-> None,
      size_bytes |-> PyInt(7)],
     [name |-> PyStr(<<"fileSearchStores/", "s1", "/documents/", "d2">>),
      display_name |-> None, mime_type |-> None, create_time |-> None, update_time |-> None,
      size_bytes |-> None, file |-> [name |-> PyStr(<<"files/", "f2">>)]],
     [name |-> PyStr(<<"fileSearchStores/", "s1", "/documents/", "d3">>),
      file |-> None, file_name |-> PyStr(<<"files/", "f3">>)]}

NativeDocLists == {<<>>} \cup {<<a>> : a \in NativeDocs}

DocumentPageBodies ==
    {[json |-> PyDict([documents |-> PyList(<<RestDocA, RestDocB>>),
                       nextPageToken |-> PyStr(<<"t1">>)]), text |-> <<"{documents, nextPageToken}">>],
     [json |-> PyDict([fileSearchDocuments |-> PyList(<<RestDocB, PyStr(<<"junk">>)>>)]),
      text |-> <<"{fileSearchDocuments}">>],
     [json |-> EmptyDict, text |-> <<"{}">>],
     [json |-> PyDict([documents |-> PyList(<<RestDocC>>)]), text |-> <<"{documents: [d3]}">>],
     [json |-> PyDict([documents |-> PyList(<<RestDocD>>)]), text |-> <<"{documents: [d4]}">>],
     [json |-> PyDict([documents |-> PyInt(7)]), text |-> <<"{documents: 7}">>],
     [json |-> PyList(<<>>), text |-> <<"[]">>],
     [json |-> InvalidJson, text |-> <<"<html>">>]}

DocumentPageResponses ==
    {HttpResponse(200, b.json, b.text) : b \in DocumentPageBodies}
    \cup {HttpResponse(404, InvalidJson, <<"NOT_FOUND">>)}
    \cup TransportExceptions

\* getattr(obj, name) where hasattr(obj, name), else None
Attr(obj, name) == IF name \in DOMAIN obj THEN obj[name] ELSE None
\* str(obj.name) if hasattr(obj, name) else None
StrAttr(obj, name) == IF name \in DOMAIN obj THEN PyStr(StrOf(obj[name])) ELSE None

\* lines 490-510
native_doc_info(doc) ==
    LET file_ref == Attr(doc, "file")
        from_file == IF "file" \in DOMAIN doc
                     THEN IF IsStr(file_ref) THEN file_ref
                          ELSE IF "name" \in DOMAIN file_ref THEN file_ref.name ELSE None
                     ELSE None
        from_file_id == IF ~Truthy(from_file) /\ "file_id" \in DOMAIN doc
                        THEN doc.file_id ELSE from_file
        file_id == IF ~Truthy(from_file_id) /\ "file_name" \in DOMAIN doc
                   THEN doc.file_name ELSE from_file_id
    IN  PyDict([document_name |-> Attr(doc, "name"),
                display_name |-> Attr(doc, "display_name"),
                mime_type |-> Attr(doc, "mime_type"),
                create_time |-> StrAttr(doc, "create_time"),
                update_time |-> StrAttr(doc, "update_time"),
                size_bytes |-> Attr(doc, "size_bytes"),
                file_id |-> file_id])

\* lines 533-539
list_documents_in_store_success(document_list, store_name, next_page_token) ==
    [success |-> PyBool(TRUE),
     documents |-> PyList(document_list),
     count |-> PyInt(Len(document_list)),
     store_name |-> PyStr(store_name),
     next_page_token |-> next_page_token]

\* lines 540-546
list_documents_in_store_except(e) ==
    Logged(<<"Error listing documents in store ">> \o args'.store_name \o <<": ">> \o e.msg,
           Returned([success |-> PyBool(FALSE), error |-> PyStr(e.msg), documents |-> PyList(<<>>)]))

use_rest_when_truthy(page_size, page_token) == Truthy(page_token) \/ Truthy(page_size)

\* line 482
use_rest(page_size, page_token) == ~IsNone(page_token) \/ ~IsNone(page_size)

\* lines 513-517
document_params(page_size, page_token) ==
    (IF Truthy(page_size) THEN {<<"pageSize", PyStr(StrOf(page_size))>>} ELSE {})
    \cup (IF Truthy(page_token) THEN {<<"pageToken", page_token>>} ELSE {})

\* line 526
page_documents(data) ==
    LET a == Get(data, "documents", None)
        b == Get(data, "fileSearchDocuments", None)
    IN  IF Truthy(a) THEN a ELSE IF Truthy(b) THEN b ELSE PyList(<<>>)

RECURSIVE normalized_documents(_)
\* lines 527-529
normalized_documents(documents) ==
    IF documents = <<>> THEN <<>>
    ELSE IF IsDict(Head(documents))
         THEN <<_normalize_document(Head(documents))>> \o normalized_documents(Tail(documents))
         ELSE normalized_documents(Tail(documents))

\* lines 477-546
list_documents_in_store(store_name, page_size, page_token) ==
    /\ Enter("list_documents_in_store",
             [store_name |-> store_name, page_size |-> page_size, page_token |-> page_token])
    /\ UNCHANGED polled
    /\ IF native /\ ~use_rest(page_size, page_token)
       THEN /\ \E x \in SdkCall(NativeDocLists) :
                 /\ SdkCalled("file_search_stores.documents.list", x)
                 /\ IF Throws(x) THEN Finish(list_documents_in_store_except(x.exc))
                    ELSE Finish(Returned(list_documents_in_store_success(
                             [i \in 1..Len(x.val) |-> native_doc_info(x.val[i])], store_name, None)))
            /\ UNCHANGED <<clock, reqs>>
       ELSE \E r \in DocumentPageResponses, d \in Latencies :
              LET data == checked_json(r)
              IN  /\ Send(Request("GET", BASE_URL \o store_name \o <<"/documents">>,
                                  document_params(page_size, page_token), None), r, d)
                  /\ IF Throws(data) THEN Finish(list_documents_in_store_except(data.exc))
                     ELSE IF ~HasGet(data.val)
                     THEN Finish(list_documents_in_store_except(AttributeError))
                     ELSE IF ~IsList(page_documents(data.val))
                     THEN Finish(list_documents_in_store_except(TypeError))
                     ELSE Finish(Returned(list_documents_in_store_success(
                              normalized_documents(page_documents(data.val).list), store_name,
                              Get(data.val, "nextPageToken", None))))

----------------------------------------------------------------------------
(* upload_file, delete_file, list_files, get_file: served by the SDK only  *)

\* file objects as the SDK yields them
NativeFiles ==
    {[name |-> PyStr(<<"files/", "f1">>), display_name |-> PyStr(<<"report.pdf">>),
      mime_type |-> PyStr(<<"application/pdf">>), size_bytes |-> PyInt(7),
      create_time |-> PyStr(<<"2025-01-01 00:00:00+00:00">>), update_time |-> None,
      uri |-> PyStr(<<"https://files/f1">>), state |-> [name |-> PyStr(<<"ACTIVE">>)]],
     [name |-> PyStr(<<"files/", "f2">>), display_name |-> None,
      mime_type |-> None, size_bytes |-> None,
      create_time |-> None, update_time |-> None,
      uri |-> None, state |-> None]}

NativeFileLists == {<<>>} \cup {<<a>> : a \in NativeFiles}

\* lines 860-867 (and 647-653, 902-908)
file_info(file) ==
    [file_id |-> file.name,
     display_name |-> file.display_name,
     mime_type |-> Attr(file, "mime_type"),
     size_bytes |-> Attr(file, "size_bytes"),
     create_time |-> StrAttr(file, "create_time"),
     update_time |-> StrAttr(file, "update_time"),
     uri |-> Attr(file, "uri")]

\* lines 645-654
upload_file_success(file) ==
    [k \in {"success"} \cup DOMAIN file_info(file) |->
        IF k = "success" THEN PyBool(TRUE) ELSE file_info(file)[k]]

\* lines 631-634
upload_file_not_found(file_path) ==
    Logged(<<"File not found: ">> \o file_path,
           Returned([success |-> PyBool(FALSE), error |-> PyStr(<<"File not found: ">> \o file_path)]))

\* lines 655-660
upload_file_except(e) ==
    Logged(<<"Error uploading file ">> \o args'.file_path \o <<": ">> \o e.msg,
           Returned([success |-> PyBool(FALSE), error |-> PyStr(e.msg)]))

\* lines 627-660
upload_file(file_path) ==
    /\ Enter("upload_file", [file_path |-> file_path])
    /\ UNCHANGED <<clock, reqs, polled>>
    /\ IF ~exists(file_path)
       THEN Finish(upload_file_not_found(file_path)) /\ UNCHANGED sdk_calls
       ELSE \E x \in SdkCall(NativeFiles) :
               /\ SdkCalled("files.upload", x)
               /\ IF Throws(x) THEN Finish(upload_file_except(x.exc))
                  ELSE Finish(Returned(upload_file_success(x.val)))

delete_file_except_unstringified(e) ==
    Returned([success |-> PyBool(FALSE), error |-> [exception |-> e]])

\* lines 838-843
delete_file_except(e) ==
    Logged(<<"Error deleting file ">> \o args'.file_id \o <<": ">> \o e.msg,
           Returned([success |-> PyBool(FALSE), error |-> PyStr(e.msg)]))

\* lines 827-843
delete_file(file_id) ==
    /\ Enter("delete_file", [file_id |-> file_id])
    /\ UNCHANGED <<clock, reqs, polled>>
    /\ \E x \in SdkCall({None}) :
          /\ SdkCalled("files.delete", x)
          /\ IF Throws(x) THEN Finish(delete_file_except(x.exc))
             ELSE Finish(Returned([success |-> PyBool(TRUE),
                                   file_id |-> PyStr(file_id),
                                   message |-> PyStr(<<"File ">> \o file_id
                                                     \o <<" deleted successfully">>)]))

\* lines 876-882
list_files_except(e) ==
    Logged(<<"Error listing files: ">> \o e.msg,
           Returned([success |-> PyBool(FALSE), error |-> PyStr(e.msg), files |-> PyList(<<>>)]))

\* lines 852-882
list_files ==
    /\ Enter("list_files", NoArgs)
    /\ UNCHANGED <<clock, reqs, polled>>
    /\ \E x \in SdkCall(NativeFileLists) :
          /\ SdkCalled("files.list", x)
          /\ IF Throws(x) THEN Finish(list_files_except(x.exc))
             ELSE Finish(Returned([success |-> PyBool(TRUE),
                                   files |-> PyList([i \in 1..Len(x.val) |-> PyDict(file_info(x.val[i]))]),
                                   count |-> PyInt(Len(x.val))]))

\* lines 900-910
get_file_success(file) ==
    [k \in {"success", "state"} \cup DOMAIN file_info(file) |->
        IF k = "success" THEN PyBool(TRUE)
        ELSE IF k = "state" THEN file.state.name
        ELSE file_info(file)[k]]

\* lines 911-916
get_file_except(e) ==
    Logged(<<"Error getting file ">> \o args'.file_id \o <<": ">> \o e.msg,
           Returned([success |-> PyBool(FALSE), error |-> PyStr(e.msg)]))

NoneHasNoName == Exc("AttributeError", <<"'NoneType' object has no attribute 'name'">>)

\* lines 894-916
get_file(file_id) ==
    /\ Enter("get_file", [file_id |-> file_id])
    /\ UNCHANGED <<clock, reqs, polled>>
    /\ \E x \in SdkCall(NativeFiles) :
          /\ SdkCalled("files.get", x)
          /\ IF Throws(x) THEN Finish(get_file_except(x.exc))
             ELSE IF IsNone(x.val.state) THEN Finish(get_file_except(NoneHasNoName))
             ELSE Finish(Returned(get_file_success(x.val)))

----------------------------------------------------------------------------
(* search_with_file_search, search_with_grounding                          *)

Queries == {<<"what is x?">>}
Models == {<<"gemini-2.5-flash">>}
MetadataFilters == {None, PyStr(<<"author = a">>)}


\* text.strip(): leading and trailing blank fragments removed
Blank(fragment) == fragment \in {" ", "\n"}
RECURSIVE LStrip(_)
LStrip(text) == IF text # <<>> /\ Blank(Head(text)) THEN LStrip(Tail(text)) ELSE text
RECURSIVE RStrip(_)
RStrip(text) ==
    IF text # <<>> /\ Blank(text[Len(text)]) THEN RStrip(SubSeq(text, 1, Len(text) - 1)) ELSE text
Strip(text) == RStrip(LStrip(text))

RECURSIVE joined_texts(_)
\* lines 189-192
joined_texts(parts) ==
    IF parts = <<>> THEN <<>>
    ELSE IF IsDict(Head(parts)) /\ IsStr(Get(Head(parts), "text", None))
         THEN Get(Head(parts), "text", None).str \o joined_texts(Tail(parts))
         ELSE joined_texts(Tail(parts))

\* lines 183-187, 199-203: candidates[0] or {}, or None when there is no candidate
first_candidate(data) ==
    LET candidates == Or(Get(data, "candidates", None), PyList(<<>>))
    IN  IF ~Truthy(candidates) THEN None ELSE Or(candidates.list[1], EmptyDict)

\* lines 182-193
_extract_text_from_generate_content(data) ==
    LET candidate == first_candidate(data)
    IN  IF IsNone(candidate) THEN PyStr(<<>>)
        ELSE LET content == Or(Get(candidate, "content", None), EmptyDict)
                 parts == Or(Get(content, "parts", None), PyList(<<>>))
             IN  PyStr(Strip(joined_texts(parts.list)))

\* lines 212-218
citation_entry(source, text) ==
    PyDict([k \in (IF IsNone(text) THEN {} ELSE {"content", "text"})
                  \cup (IF IsNone(source) THEN {} ELSE {"source"}) |->
               IF k = "source" THEN source ELSE text])

\* a helper that appends every citation and never consults seen
add_citation_without_seen(acc, source, text) ==
    IF ~Truthy(source) /\ ~Truthy(text) THEN acc
    ELSE [out |-> Append(acc.out, citation_entry(source, text)), seen |-> acc.seen]

\* lines 205-218: acc holds citations_out and seen
add_citation(acc, source, text) ==
    IF ~Truthy(source) /\ ~Truthy(text) THEN acc
    ELSE LET key == <<Or(source, PyStr(<<>>)), Or(text, PyStr(<<>>))>>
         IN  IF key \in acc.seen THEN acc
             ELSE [out |-> Append(acc.out, citation_entry(source, text)),
                   seen |-> acc.seen \cup {key}]

SourceKeys == <<"uri", "url", "source", "sourceId", "document", "name">>

RECURSIVE add_citations(_, _)
\* lines 222-227
add_citations(acc, citations) ==
    IF citations = <<>> THEN acc
    ELSE IF ~IsDict(Head(citations)) THEN add_citations(acc, Tail(citations))
    ELSE add_citations(
            add_citation(acc, _pick(Head(citations), SourceKeys),
                         _pick(Head(citations), <<"snippet", "text", "content", "title">>)),
            Tail(citations))

RECURSIVE add_chunks(_, _)
\* lines 231-239
add_chunks(acc, chunks) ==
    IF chunks = <<>> THEN acc
    ELSE IF ~IsDict(Head(chunks)) THEN add_chunks(acc, Tail(chunks))
    ELSE LET context == Or(Or(Get(Head(chunks), "retrievedContext", None),
                              Get(Head(chunks), "retrieved_context", None)), EmptyDict)
         IN  IF ~IsDict(context) THEN add_chunks(acc, Tail(chunks))
             ELSE add_chunks(
                     add_citation(acc, _pick(context, SourceKeys),
                                  _pick(context, <<"text", "snippet", "content", "title">>)),
                     Tail(chunks))

\* lines 195-241
_extract_citations(data) ==
    LET candidate == first_candidate(data)
        citation_meta == Or(Or(Get(candidate, "citationMetadata", None),
                               Get(candidate, "citation_metadata", None)), EmptyDict)
        citations == Or(Get(citation_meta, "citations", None), PyList(<<>>))
        grounding == Or(Or(Get(candidate, "groundingMetadata", None),
                           Get(candidate, "grounding_metadata", None)), EmptyDict)
        grounding_chunks == Or(Or(Get(grounding, "groundingChunks", None),
                                  Get(grounding, "grounding_chunks", None)), PyList(<<>>))
    IN  IF IsNone(candidate) THEN <<>>
        ELSE add_chunks(add_citations([out |-> <<>>, seen |-> {}], citations.list),
                        grounding_chunks.list).out

CitationA == PyDict([uri |-> PyStr(<<"doc1">>), snippet |-> PyStr(<<"s1">>)])
ChunkA == PyDict([retrievedContext |-> PyDict([uri |-> PyStr(<<"doc1">>), text |-> PyStr(<<"s1">>)])])
ChunkB == PyDict([retrieved_context |-> PyDict([title |-> PyStr(<<"t2">>)])])

CitationB == PyDict([url |-> PyStr(<<"doc1">>)])
CitationC == PyDict([source |-> PyStr(<<>>), title |-> PyStr(<<"s1">>)])
ChunkC == PyDict([retrievedContext |-> PyDict([name |-> PyStr(<<"doc1">>)])])
ChunkD == PyDict([retrieved_context |-> PyDict([snippet |-> PyStr(<<"s1">>)])])

GroundingA == PyDict([groundingChunks |-> PyList(<<ChunkA, ChunkB, PyStr(<<"junk">>)>>)])

\* generateContent responses, well formed or not
GenerateBodies ==
    {[json |-> PyDict([candidates |-> PyList(<<c>>)]), text |-> <<"{candidates}">>] :
        c \in {PyDict([content |-> PyDict([parts |-> PyList(<<PyDict([text |-> PyStr(<<" ", "The answer">>)]),
                                                              PyDict([inlineData |-> EmptyDict]),
                                                              PyDict([text |-> PyStr(<<" is 42", "\n">>)])>>)]),
                       citationMetadata |-> PyDict([citations |-> PyList(<<CitationA, CitationA>>)]),
                       groundingMetadata |-> GroundingA]),
               PyDict([content |-> PyDict([parts |-> PyList(<<PyDict([text |-> PyStr(<<"ok">>)])>>)]),
                       grounding_metadata |-> GroundingA]),
               PyDict([citation_metadata |-> PyDict([citations |-> PyList(<<CitationB, CitationA, EmptyDict, CitationC, CitationB>>)]),
                       groundingMetadata |-> PyDict([grounding_chunks |-> PyList(<<ChunkD, ChunkA, PyDict([retrievedContext |-> EmptyDict]), ChunkC>>)])]),
               PyDict([finishReason |-> PyStr(<<"SAFETY">>)]),
               None}}
    \cup
    {[json |-> PyDict([candidates |-> PyList(<<>>)]), text |-> <<"{candidates: []}">>],
     [json |-> EmptyDict, text |-> <<"{}">>],
     [json |-> PyList(<<>>), text |-> <<"[]">>],
     [json |-> InvalidJson, text |-> <<"<html>">>]}

GenerateResponses ==
    {HttpResponse(200, b.json, b.text) : b \in GenerateBodies}
    \cup {HttpResponse(s, InvalidJson, <<"error">>) : s \in {400, 429}}
    \cup TransportExceptions

\* lines 154-172
generate_payload(query, store_names, metadata_filter) ==
    LET names == PyList([i \in 1..Len(store_names) |-> PyStr(store_names[i])])
        file_search_config ==
            IF ~IsNone(metadata_filter)
            THEN PyDict([file_search_store_names |-> names, metadata_filter |-> metadata_filter])
            ELSE PyDict([file_search_store_names |-> names])
    IN  PyDict([contents |-> PyList(<<PyDict([role |-> PyStr(<<"user">>),
                                              parts |-> PyList(<<PyDict([text |-> PyStr(query)])>>)])>>),
                tools |-> PyList(<<PyDict([file_search |-> file_search_config])>>)])

\* lines 174-178
generate_request(query, store_names, model, metadata_filter) ==
    Request("POST", BASE_URL \o <<"models/">> \o model \o <<":generateContent">>, NoParams,
            generate_payload(query, store_names, metadata_filter))

\* lines 179-180, then the .get() calls of the extraction on the parsed body
generate_data(r) ==
    LET data == checked_json(r)
    IN  IF Throws(data) THEN data
        ELSE IF ~HasGet(data.val) THEN Throw(AttributeError)
        ELSE data

StoreNameLists == {<<s>> : s \in StoreNames}
PyStrList(names) == PyList([i \in 1..Len(names) |-> PyStr(names[i])])

\* lines 964-970
search_with_file_search_except(e, query) ==
    Logged(<<"Error in FileSearch: ">> \o e.msg,
           Returned([success |-> PyBool(FALSE), error |-> PyStr(e.msg), query |-> PyStr(query)]))

\* lines 939-970
search_with_file_search(query, store_names, metadata_filter, model) ==
    /\ Enter("search_with_file_search",
             [query |-> query, store_names |-> store_names,
              metadata_filter |-> metadata_filter, model |-> model])
    /\ UNCHANGED polled
    /\ \E r \in GenerateResponses, d \in Latencies :
         LET data == generate_data(r)
         IN  /\ Send(generate_request(query, store_names, model, metadata_filter), r, d)
             /\ IF Throws(data) THEN Finish(search_with_file_search_except(data.exc, query))
                ELSE Finish(Returned(
                        [success |-> PyBool(TRUE),
                         query |-> PyStr(query),
                         result |-> _extract_text_from_generate_content(data.val),
                         citations |-> PyList(_extract_citations(data.val)),
                         stores_searched |-> PyStrList(store_names),
                         model |-> PyStr(model)]))

\* lines 996-1002
grounding_metadata_of(data) ==
    LET candidate == first_candidate(data)
        found == IF IsNone(candidate) THEN None
                 ELSE Or(Get(candidate, "groundingMetadata", None),
                         Get(candidate, "grounding_metadata", None))
    IN  IF IsNone(found) THEN None ELSE PyStr(StrOf(found))

\* lines 1014-1020
search_with_grounding_except(e, query) ==
    Logged(<<"Error in grounding search: ">> \o e.msg,
           Returned([success |-> PyBool(FALSE), error |-> PyStr(e.msg), query |-> PyStr(query)]))

\* lines 989-1020
search_with_grounding(query, store_names, model) ==
    /\ Enter("search_with_grounding",
             [query |-> query, store_names |-> store_names, model |-> model])
    /\ UNCHANGED polled
    /\ \E r \in GenerateResponses, d \in Latencies :
         LET data == generate_data(r)
         IN  /\ Send(generate_request(query, store_names, model, None), r, d)
             /\ IF Throws(data) THEN Finish(search_with_grounding_except(data.exc, query))
                ELSE Finish(Returned(
                        [success |-> PyBool(TRUE),
                         query |-> PyStr(query),
                         result |-> _extract_text_from_generate_content(data.val),
                         stores_searched |-> PyStrList(store_names),
                         grounding_metadata |-> grounding_metadata_of(data.val),
                         model |-> PyStr(model)]))

----------------------------------------------------------------------------
(* app/routes.py: the two upload routes, which hand the adapter a          *)
(* temporary copy of the uploaded file                                     *)

\* filenames of uploaded files: none, an allowed one, one that is not allowed
Filenames == {<<>>, <<"report", ".pdf">>, <<"tool", ".exe">>}
FormStoreNames == {<<>>} \cup StoreNames

\* line 10, as far as the filenames above go
ALLOWED_EXTENSIONS == {".pdf", ".txt", ".csv", ".json"}

\* lines 12-13
allowed_file(filename) == Len(filename) >= 2 /\ filename[Len(filename)] \in ALLOWED_EXTENSIONS

\* os.path.splitext(filename)[1]
splitext(filename) == IF Len(filename) >= 2 THEN filename[Len(filename)] ELSE ""

\* the route has answered the HTTP request
Responded(name, status) == [name |-> name, at |-> "responded", status |-> status]

\* what NamedTemporaryFile and file.save may do: fail before the temporary
\* file exists, fail while the content is written into it, or succeed
SaveOutcomes == {"create_raised", "save_raised", "saved"}

\* lines 223-226 and 475-477: `with NamedTemporaryFile(delete=False, ...)`,
\* then file.save; an exception goes to the route's `except Exception`
\* (lines 248-250, 502-504)
save_upload(name, filename, method, arguments) ==
    \E saved \in SaveOutcomes :
       LET tmp == NamedTemporaryFile(splitext(filename))
       IN  /\ disk' = IF saved = "create_raised" THEN disk ELSE disk \cup {tmp}
           /\ route' = IF saved = "saved"
                        THEN [name |-> name, at |-> "call", tmp_path |-> tmp,
                              method |-> method, arguments |-> arguments]
                        ELSE Responded(name, 500)

\* routes.upload_file, lines 200-229: up to the call of the adapter
routes_upload_file(has_file, filename) ==
    /\ pc = "idle"
    /\ route = NoRoute
    /\ UNCHANGED <<native, api_key, created, other, sdk_calls, logs, op, pc, args, clock, reqs, loc, polled, outcome>>
    /\ IF ~has_file \/ filename = <<>> \/ ~allowed_file(filename)
       THEN route' = Responded("upload_file", 400) /\ UNCHANGED disk
       ELSE save_upload("upload_file", filename, "upload_file",
                        [file_path |-> NamedTemporaryFile(splitext(filename))])

\* routes.upload_to_store, lines 454-481: up to the call of the adapter
routes_upload_to_store(has_file, filename, store_name) ==
    /\ pc = "idle"
    /\ route = NoRoute
    /\ UNCHANGED <<native, api_key, created, other, sdk_calls, logs, op, pc, args, clock, reqs, loc, polled, outcome>>
    /\ IF ~has_file \/ filename = <<>> \/ store_name = <<>> \/ ~allowed_file(filename)
       THEN route' = Responded("upload_to_store", 400) /\ UNCHANGED disk
       ELSE save_upload("upload_to_store", filename, "upload_and_import_to_store",
                        [file_path |-> NamedTemporaryFile(splitext(filename)),
                         store_name |-> store_name,
                         display_name |-> PyStr(filename)])

\* lines 241-246, 497-500: the `finally` of the inner try
remove_temporary_file(tmp_path) ==
    disk' = IF exists(tmp_path) THEN disk \ {tmp_path} ELSE disk

\* lines 228-250 and 479-504 after the adapter call: the adapter returned
\* (201 or 400), or GeminiClient(...) raised before the call (500); the
\* `finally` runs in both cases
routes_respond ==
    /\ route # NoRoute
    /\ route.at = "call"
    /\ pc \in {"idle", "done"}
    /\ remove_temporary_file(route.tmp_path)
    /\ route' = Responded(route.name,
                   IF pc = "idle" \/ ~HasReturned THEN 500
                   ELSE IF Truthy(outcome.returned.success) THEN 201 ELSE 400)
    /\ UNCHANGED <<native, api_key, created, other, sdk_calls, logs, op, pc, args, clock, reqs, loc, polled, outcome>>

----------------------------------------------------------------------------
(* The caller takes the result; the next request builds a new client       *)

\* the names under which the caller may fetch what it has just created
CreatedStoreNames == IF created = NotCreated THEN {} ELSE {created.store_name}

\* what the service holds of the call that ends: after a creation it accepted,
\* the store under the name it returned, with the display name the adapter
\* sent (in the POST body or in the config of the native call), and the name
\* the caller had supplied
service_after_call ==
    IF /\ op = "create_file_search_store"
       /\ HasReturned
       /\ outcome.returned.success = PyBool(TRUE)
       /\ IsStr(outcome.returned.store_name)
    THEN [store_name |-> outcome.returned.store_name.str,
          supplied |-> args.display_name,
          display_name |-> IF sdk_calls # <<>> THEN sdk_calls[1].config.display_name
                           ELSE reqs[1].request.json_body.dict.displayName]
    ELSE NotCreated

Return ==
    /\ IF route = NoRoute THEN pc = "done" ELSE route.at = "responded"
    /\ pc' = "idle"
    /\ op' = "idle"
    /\ args' = NoArgs
    /\ clock' = 0
    /\ reqs' = <<>>
    /\ loc' = NoLocals
    /\ polled' = NoPoll
    /\ outcome' = Pending
    /\ sdk_calls' = <<>>
    /\ logs' = <<>>
    /\ disk' = LocalFiles
    /\ route' = NoRoute
    /\ created' = service_after_call
    /\ UNCHANGED <<native, api_key, other>>

Next ==
    \/ \E s \in StoreNames, n \in DocumentNames : delete_store_document(s, n)
    \/ delete_store_document_force
    \/ \E n \in OperationNames, t \in 0..MaxTimeout, i \in 0..MaxInterval :
          _poll_operation(n, t, i)
    \/ poll_operation_request
    \/ poll_operation_sleep
    \/ poll_operation_timeout
    \/ \E i \in ImportInputs, s \in StoreNames :
          import_file_to_store(i.file_id, s, i.metadata)
    \/ import_file_to_store_post
    \/ \E n \in DisplayNames : create_file_search_store(n)
    \/ \E s \in StoreNames \cup CreatedStoreNames : get_file_search_store(s)
    \/ \E s \in StoreNames : delete_file_search_store(s)
    \/ \E t \in {None, PyStr(<<>>)} \cup {PyStr(t) : t \in PageTokens}, a \in BOOLEAN :
          list_file_search_stores(t, a)
    \/ list_file_search_stores_page
    \/ \E s \in StoreNames, z \in {None, PyInt(0), PyInt(10)},
          t \in {None, PyStr(<<>>), PyStr(<<"t1">>)} : list_documents_in_store(s, z, t)
    \/ \E f \in FilePaths : upload_file(f)
    \/ \E f \in FileIds : delete_file(f)
    \/ list_files
    \/ \E f \in FileIds : get_file(f)
    \/ \E u \in UploadInputs, s \in StoreNames :
          upload_and_import_to_store(u.file_path, s, u.display_name)
    \/ \E h \in BOOLEAN, f \in Filenames : routes_upload_file(h, f)
    \/ \E h \in BOOLEAN, f \in Filenames, s \in FormStoreNames : routes_upload_to_store(h, f, s)
    \/ routes_respond
    \/ \E q \in Queries, s \in StoreNameLists, f \in MetadataFilters, m \in Models :
          search_with_file_search(q, s, f, m)
    \/ \E q \in Queries, s \in StoreNameLists, m \in Models : search_with_grounding(q, s, m)
    \/ Return

Spec == Init /\ [][Next]_vars

\* the poll loop is run by the transport path only and reads nothing of the
\* credential: its termination is checked for one credential on a runtime
\* without the native interface
FairInit == Init /\ ~native /\ api_key = <<"AIzaSyKey">>

\* the interpreter keeps running the poll loop of a call that is in it
FairSpec ==
    /\ FairInit
    /\ [][Next]_vars
    /\ WF_vars(poll_operation_request)
    /\ WF_vars(poll_operation_sleep)
    /\ WF_vars(poll_operation_timeout)

----------------------------------------------------------------------------
(* Two calls in one process, each on the client handle built for it        *)

\* GeminiClient(api_key), lines 52-56, and the call it is built for, not yet begun
GeminiClient(key) ==
    [api_key |-> key, sdk_calls |-> <<>>, op |-> "idle", pc |-> "idle", args |-> NoArgs,
     reqs |-> <<>>, loc |-> NoLocals, polled |-> NoPoll, outcome |-> Pending]

\* what belongs to the call in progress alone: the fields of its handle, the
\* arguments and locals of the method it runs, what it has exchanged so far
handle ==
    [api_key |-> api_key, sdk_calls |-> sdk_calls, op |-> op, pc |-> pc, args |-> args,
     reqs |-> reqs, loc |-> loc, polled |-> polled, outcome |-> outcome]

\* calls that are in the same loop work on one set of locals
resumed_sharing_locals(h) ==
    [h EXCEPT !.loc = IF h.pc = pc /\ pc \notin {"idle", "done"} THEN loc ELSE h.loc]

\* the call that is taken up again finds its handle and its locals as it left them
resumed(h) == h

\* the interpreter sets the running call aside and takes up the other one
Switch ==
    /\ other # NoHandle
    /\ other' = handle
    /\ LET h == resumed(other)
       IN  /\ api_key' = h.api_key
           /\ sdk_calls' = h.sdk_calls
           /\ op' = h.op
           /\ pc' = h.pc
           /\ args' = h.args
           /\ reqs' = h.reqs
           /\ loc' = h.loc
           /\ polled' = h.polled
           /\ outcome' = h.outcome
    /\ UNCHANGED <<native, created, disk, route, logs, clock>>

\* routes.list_stores, lines 74-78, served twice at a time: each request
\* builds its client from the configured key and lists the stores
ConcurrentInit ==
    /\ native \in BOOLEAN
    /\ api_key \in ApiKeys
    /\ other = GeminiClient(api_key)
    /\ created = NotCreated
    /\ disk = LocalFiles
    /\ route = NoRoute
    /\ sdk_calls = <<>>
    /\ logs = <<>>
    /\ op = "idle"
    /\ pc = "idle"
    /\ args = NoArgs
    /\ clock = 0
    /\ reqs = <<>>
    /\ loc = NoLocals
    /\ polled = NoPoll
    /\ outcome = Pending

\* the answers of the service while two listings run: pages that go on, last
\* pages, a refusal and a failure of the transport
ConcurrentPageResponses ==
    {HttpResponse(200, PyDict([fileSearchStores |-> PyList(i), nextPageToken |-> PyStr(<<"t1">>)]),
                  <<"{fileSearchStores, nextPageToken}">>) : i \in PageItems \ {<<>>}}
    \cup {HttpResponse(200, PyDict([fileSearchStores |-> PyList(i)]), <<"{fileSearchStores}">>)
             : i \in PageItems \ {<<>>}}
    \cup {HttpResponse(503, InvalidJson, <<"UNAVAILABLE">>)}
    \cup TransportExceptions

ConcurrentNext ==
    \/ \E t \in {None, PyStr(<<"t2">>)}, a \in BOOLEAN : list_file_search_stores(t, a)
    \/ fetch_page(ConcurrentPageResponses, {1})
    \/ Switch

ConcurrentSpec == ConcurrentInit /\ [][ConcurrentNext]_vars

----------------------------------------------------------------------------
(* Properties of delete_store_document                                     *)

InDelete == op = "delete_store_document" /\ Len(reqs) >= 1
FirstResponse == reqs[1].response
FirstRejected == IsHttp(FirstResponse) /\ FirstResponse.status \notin {200, 204}

\* the first DELETE was rejected with a message that holds the non-empty text
FirstReportsNonEmpty ==
    /\ FirstRejected
    /\ ~Throws(delete_message(FirstResponse))
    /\ IsStr(delete_message(FirstResponse).val)
    /\ Contains(delete_message(FirstResponse).val.str, NonEmptyMarker)

IsForced(request) == <<"force", PyStr(<<"true">>)>> \in request.params

ReturnedFailure ==
    /\ pc = "done"
    /\ HasReturned
    /\ outcome.returned.success = PyBool(FALSE)

ReturnedSuccess ==
    /\ pc = "done"
    /\ HasReturned
    /\ outcome.returned.success = PyBool(TRUE)

\* C1: a first DELETE rejected as non-empty is followed by exactly one more
\* DELETE, sent with force=true, and never by a third; a first DELETE answered
\* 200 or 204 is followed by no other DELETE.
C1_ForcedRetryExactlyOnce ==
    InDelete =>
        /\ \A i \in 1..Len(reqs) : reqs[i].request.method = "DELETE"
        /\ ~IsForced(reqs[1].request)
        /\ FirstReportsNonEmpty =>
              /\ Len(reqs) <= 2
              /\ pc # "done" => pc = "delete_force" /\ Len(reqs) = 1
              /\ pc = "done" => Len(reqs) = 2 /\ IsForced(reqs[2].request)
        /\ (IsHttp(FirstResponse) /\ FirstResponse.status \in {200, 204}) =>
              /\ Len(reqs) = 1
              /\ pc = "done"

C1_Witness ==
    /\ InDelete
    /\ FirstReportsNonEmpty
    /\ Len(reqs) = 2
    /\ ReturnedSuccess

\* C2: a first DELETE rejected for any other reason is the only DELETE of the
\* call, which returns success:false; a forced retry is sent to the resource
\* the first attempt was sent to.
C2_OtherErrorsNotRetried ==
    InDelete =>
        /\ (FirstRejected /\ ~FirstReportsNonEmpty) =>
              /\ Len(reqs) = 1
              /\ ReturnedFailure
        /\ \A i \in 2..Len(reqs) :
              /\ IsForced(reqs[i].request)
              /\ reqs[i].request.url = reqs[1].request.url

C2_Witness ==
    /\ InDelete
    /\ FirstRejected
    /\ ~FirstReportsNonEmpty
    /\ ReturnedFailure
    /\ Contains(outcome.returned.error.str, "NOT_FOUND")

----------------------------------------------------------------------------
(* Properties of _poll_operation and of the calls that poll                *)

Polling == pc \in {"poll", "sleep"}
Pollers == {"import_file_to_store", "upload_and_import_to_store"}
HasPolled == polled # NoPoll

\* a poll answered by an operation resource
AnsweredOperation(r) == IsHttp(r) /\ Ok(r) /\ r.json # InvalidJson /\ IsDict(r.json)
\* ... that is still running
ReportsPending(r) == AnsweredOperation(r) /\ ~Truthy(Get(r.json, "done", None))
\* ... that completed with an error payload (an error object of the service)
ReportsError(r) ==
    /\ AnsweredOperation(r)
    /\ Truthy(Get(r.json, "done", None))
    /\ IsDict(Get(r.json, "error", None))
    /\ Truthy(Get(r.json, "error", None))
\* ... that completed without one
ReportsDone(r) ==
    /\ AnsweredOperation(r)
    /\ Truthy(Get(r.json, "done", None))
    /\ ~Truthy(Get(r.json, "error", None))

\* the message of the error payload, the payload as text when it has none
ReportedMessage(r) ==
    LET error == r.json.dict.error
    IN  IF "message" \in DOMAIN error.dict THEN StrOf(error.dict.message) ELSE StrOf(error)

LastExchange == reqs[Len(reqs)]

\* the operation handle in the answer to the POST that started the work
Handle(r) ==
    IF IsHttp(r) /\ Ok(r) /\ r.text # <<>> /\ r.json # InvalidJson /\ IsDict(r.json)
    THEN Get(r.json, "name", None)
    ELSE None

\* the call polled an operation that never reported done
NeverDone ==
    /\ pc = "done"
    /\ \/ op = "_poll_operation" /\ (HasPolled => ReportsPending(polled.response))
       \/ op \in Pollers /\ HasPolled /\ ReportsPending(polled.response)

TimedOut ==
    \/ /\ op = "_poll_operation"
       /\ outcome = Raised(PollTimeout(args.operation_name, args.timeout))
       /\ clock >= args.timeout
    \/ /\ op \in Pollers
       /\ ReturnedFailure
       /\ outcome.returned.error =
             PyStr(PollTimeout(StrOf(Handle(LastExchange.response)), DefaultPollTimeout).msg)
       /\ clock >= polled.deadline

\* C3: polling an operation that never reports done terminates: no poll is
\* sent at or after the deadline (start + timeout), whatever the timeout and
\* the interval; the poll loop always comes to an end; and when every poll
\* found the operation pending, the end is a timeout error, which
\* import_file_to_store and upload_and_import_to_store return as success:false.
C3_PollingTerminates ==
    /\ [][(pc = "poll" /\ polled' # polled) =>
             /\ polled'.at = clock
             /\ polled'.at < polled'.deadline
             /\ polled'.deadline = loc.deadline]_vars
    /\ [][(~Polling /\ Polling') => loc'.deadline = clock' + loc'.timeout]_vars
    /\ [](NeverDone => TimedOut)
    /\ (Polling ~> pc = "done")

C3_Witness ==
    /\ NeverDone
    /\ op = "import_file_to_store"
    /\ TimedOut
    /\ polled.at < polled.deadline
    /\ polled.at + MaxLatency + DefaultPollInterval >= polled.deadline

\* C4: when a poll finds the operation completed with an error payload, the
\* polling call fails: import_file_to_store and upload_and_import_to_store
\* return success:false with the payload's message as error, never success.
C4_OperationErrorFails ==
    (HasPolled /\ ReportsError(polled.response)) =>
        /\ pc = "done"
        /\ op \in Pollers =>
              /\ ReturnedFailure
              /\ outcome.returned.error = PyStr(ReportedMessage(polled.response))
        /\ op = "_poll_operation" =>
              outcome = Raised(Exc("RuntimeError", ReportedMessage(polled.response)))

C4_Witness ==
    /\ op = "upload_and_import_to_store"
    /\ HasPolled
    /\ ReportsError(polled.response)
    /\ ReturnedFailure
    /\ outcome.returned.error = PyStr(<<"Unsupported file">>)

\* C5: on the transport path, a call whose POST was answered with an operation
\* handle returns success:true only once a poll of that operation found it
\* done without error; it does not return success while the operation is
\* pending.
C5_SuccessOnlyAfterDone ==
    (op \in Pollers /\ ReturnedSuccess /\ Len(reqs) >= 1
        /\ Truthy(Handle(LastExchange.response))) =>
        /\ HasPolled
        /\ ReportsDone(polled.response)
        /\ polled.request.method = "GET"
        /\ polled.request.url = BASE_URL \o StrOf(Handle(LastExchange.response))

C5_Witness ==
    /\ op = "import_file_to_store"
    /\ ReturnedSuccess
    /\ Len(reqs) = 2
    /\ Truthy(Handle(LastExchange.response))
    /\ HasPolled
    /\ polled.at > MaxLatency

----------------------------------------------------------------------------
(* Properties of import_file_to_store                                      *)

InImport == op = "import_file_to_store" /\ ~native
Unsuccessful(r) == IsHttp(r) /\ ~Ok(r)
CandidateSuffixes == <<":importFile", ":import">>

\* C6: on the transport path import_file_to_store POSTs to ':importFile' first
\* and to ':import' second, to the second only after the first answered
\* unsuccessfully (and then always), works with the first endpoint that
\* answers successfully, and when both answered unsuccessfully returns
\* success:false with the second endpoint's status and text.
C6_EndpointsInOrder ==
    InImport =>
        /\ Len(reqs) <= Len(CandidateSuffixes)
        /\ \A i \in 1..Len(reqs) :
              /\ reqs[i].request.method = "POST"
              /\ reqs[i].request.url = BASE_URL \o args.store_name \o <<CandidateSuffixes[i]>>
              /\ i < Len(reqs) => Unsuccessful(reqs[i].response)
        /\ (pc = "done" /\ Len(reqs) < Len(CandidateSuffixes)) =>
              ~Unsuccessful(LastExchange.response)
        /\ (HasPolled \/ Polling \/ ReturnedSuccess) =>
              /\ IsHttp(LastExchange.response)
              /\ Ok(LastExchange.response)
        /\ HasPolled => polled.request.url = BASE_URL \o StrOf(Handle(LastExchange.response))
        /\ (pc = "done" /\ Len(reqs) >= 1 /\ Unsuccessful(LastExchange.response)) =>
              /\ ReturnedFailure
              /\ outcome.returned.error =
                    PyStr(<<"Import failed: ", ToString(LastExchange.response.status), " ">>
                          \o LastExchange.response.text)

C6_Witness ==
    /\ InImport
    /\ pc = "done"
    /\ Len(reqs) = 2
    /\ Unsuccessful(reqs[1].response)
    /\ Unsuccessful(reqs[2].response)
    /\ reqs[1].response # reqs[2].response
    /\ ReturnedFailure

----------------------------------------------------------------------------
(* Properties of list_file_search_stores                                   *)

InTransportListing ==
    /\ op = "list_file_search_stores"
    /\ ~(native /\ ~Truthy(args.page_token) /\ ~args.all_pages)

\* the store objects of the page a response carries, as normalized records
StoresOfPage(r) == normalized_dicts(page_stores(r.json).list)

RECURSIVE StoresOfPages(_)
\* ... of the pages of the exchanges, one page after the other
StoresOfPages(exchanges) ==
    IF exchanges = <<>> THEN <<>>
    ELSE StoresOfPage(Head(exchanges).response) \o StoresOfPages(Tail(exchanges))

\* the query parameters of a page request made by hand with the token
ParamsFor(token) == IF Truthy(token) THEN {<<"pageToken", token>>} ELSE {}

\* the exchanges are the walk from the starting token: each request carries
\* the token of the page before it, and only the last page carries none
FollowsTokens ==
    /\ reqs[1].request.params = ParamsFor(args.page_token)
    /\ \A i \in 2..Len(reqs) :
          /\ Truthy(ServerToken(reqs[i - 1].response))
          /\ reqs[i].request.params = {<<"pageToken", ServerToken(reqs[i - 1].response)>>}
    /\ ~Truthy(ServerToken(LastExchange.response))

\* C7: with all_pages=true a successful list_file_search_stores returns the
\* stores of every page reached by following nextPageToken from the starting
\* token until a page has none, in page order, each store once per occurrence
\* on a page: nothing is dropped and nothing is repeated.
C7_AllPagesConcatenated ==
    (op = "list_file_search_stores" /\ args.all_pages /\ ReturnedSuccess) =>
        /\ Len(reqs) >= 1
        /\ FollowsTokens
        /\ outcome.returned.stores = PyList(StoresOfPages(reqs))
        /\ outcome.returned.count = PyInt(Len(StoresOfPages(reqs)))

C7_Witness ==
    /\ op = "list_file_search_stores"
    /\ args.all_pages
    /\ ReturnedSuccess
    /\ Len(reqs) = 3
    /\ \A i \in 1..3 : StoresOfPage(reqs[i].response) # <<>>
    /\ ServerToken(reqs[1].response) # ServerToken(reqs[2].response)
    /\ Len(outcome.returned.stores.list) = 5

\* C8: on the transport path, without all_pages list_file_search_stores sends
\* one page request and returns that page's stores with the token the server
\* sent; with all_pages it goes on requesting pages while the last page
\* carried a token and returns only after a page that carries none.
C8_OnePageOrAllPages ==
    InTransportListing =>
        /\ ~args.all_pages =>
              /\ Len(reqs) <= 1
              /\ pc = "done" <=> Len(reqs) = 1
              /\ ReturnedSuccess =>
                    /\ outcome.returned.stores = PyList(StoresOfPage(reqs[1].response))
                    /\ outcome.returned.next_page_token = ServerToken(reqs[1].response)
        /\ args.all_pages =>
              /\ \A i \in 1..(Len(reqs) - 1) : Truthy(ServerToken(reqs[i].response))
              /\ (pc = "list_page" /\ Len(reqs) >= 1) => Truthy(ServerToken(LastExchange.response))
              /\ ReturnedSuccess => ~Truthy(ServerToken(LastExchange.response))

C8_Witness ==
    /\ InTransportListing
    /\ ~args.all_pages
    /\ ReturnedSuccess
    /\ Len(reqs) = 1
    /\ Truthy(outcome.returned.next_page_token)
    /\ outcome.returned.stores # PyList(<<>>)

----------------------------------------------------------------------------
(* Properties of every public operation                                    *)

PublicOperations ==
    {"create_file_search_store", "list_file_search_stores", "get_file_search_store",
     "delete_file_search_store", "list_documents_in_store", "delete_store_document",
     "upload_file", "import_file_to_store", "upload_and_import_to_store", "delete_file",
     "list_files", "get_file", "search_with_file_search", "search_with_grounding"}

\* the last thing the remote service did in the call was to fail: a request
\* that raised or was answered with an error status, an operation that
\* completed with an error, or one still pending when the call ended
RemoteFailed ==
    IF HasPolled
    THEN \/ IsTransportExc(polled.response)
         \/ ~Ok(polled.response)
         \/ ~AnsweredOperation(polled.response)
         \/ ReportsError(polled.response)
         \/ ReportsPending(polled.response)
    ELSE /\ Len(reqs) >= 1
         /\ \/ IsTransportExc(LastExchange.response)
            \/ ~Ok(LastExchange.response)

C10_TaggedResult ==
    (pc = "done" /\ op \in PublicOperations /\ HasReturned) =>
        /\ "success" \in DOMAIN outcome.returned
        /\ IsBool(outcome.returned.success)
        /\ "error" \in DOMAIN outcome.returned <=> ~outcome.returned.success.bool
        /\ "error" \in DOMAIN outcome.returned => IsStr(outcome.returned.error)

C10_Witness ==
    /\ op = "delete_file"
    /\ ReturnedFailure
    /\ IsStr(outcome.returned.error)

----------------------------------------------------------------------------
(* Properties of the uploads                                               *)

Uploads == {"upload_file", "upload_and_import_to_store"}

\* an upload call has ended and the route, if any, has not yet cleaned up
UploadEnded ==
    /\ pc = "done"
    /\ op \in Uploads
    /\ route # NoRoute => route.at = "call"

\* the call made no request to the remote service, by HTTP or through the SDK
NoRemoteRequest == reqs = <<>> /\ sdk_calls = <<>> /\ polled = NoPoll

\* C11: upload_file and upload_and_import_to_store called with a local path
\* that does not exist return success:false with a "File not found" error and
\* have made no request to the remote service, with or without the native
\* interface.
C11_MissingFileNoRequest ==
    (UploadEnded /\ args.file_path \notin disk) =>
        /\ outcome = Returned([success |-> PyBool(FALSE),
                               error |-> PyStr(<<"File not found: ">> \o args.file_path)])
        /\ NoRemoteRequest

C11_Witness ==
    /\ UploadEnded
    /\ op = "upload_and_import_to_store"
    /\ ~native
    /\ args.file_path = MissingFile
    /\ ReturnedFailure
    /\ NoRemoteRequest

\* the temporary files on disk: whatever exists besides the local files
TemporaryFiles == disk \ LocalFiles

RouteResponded == route # NoRoute /\ route.at = "responded"

\* C12: when an upload route has answered its request, no temporary file it
\* created is left on disk, whether the adapter succeeded, returned a
\* failure, or an exception was raised after the file was created (also
\* while the uploaded content was being saved into it).
C12_TemporaryFilesRemoved == RouteResponded => TemporaryFiles = {}

----------------------------------------------------------------------------
(* Properties of the requests of one call                                  *)

\* a remote request failed: it raised or was answered with an error status
FailedResponse(r) == IsTransportExc(r) \/ ~Ok(r)

\* some remote request of the call in progress has failed
SomeRequestFailed ==
    \/ \E i \in 1..Len(reqs) : FailedResponse(reqs[i].response)
    \/ \E i \in 1..Len(sdk_calls) : sdk_calls[i].raised
    \/ HasPolled /\ FailedResponse(polled.response)

\* this step issues a remote request: HTTP, SDK call or poll
IssuesRequest ==
    \/ Len(reqs') > Len(reqs)
    \/ Len(sdk_calls') > Len(sdk_calls)
    \/ polled' # polled /\ polled' # NoPoll

\* the step is the forced retry of a delete the service rejected as non-empty
ForcedRetryStep ==
    /\ op = "delete_store_document"
    /\ Len(reqs) = 1
    /\ FirstReportsNonEmpty
    /\ Len(reqs') = 2
    /\ IsForced(reqs'[2].request)

\* the step is a turn of the poll loop
PollStep == pc = "poll" /\ polled' # polled /\ reqs' = reqs /\ sdk_calls' = sdk_calls

\* the step is import_file_to_store going on to its second endpoint
FallbackStep ==
    /\ op = "import_file_to_store"
    /\ Len(reqs) = 1
    /\ IsHttp(reqs[1].response)
    /\ Len(reqs') = 2
    /\ reqs'[2].request.url = BASE_URL \o args.store_name \o <<":import">>

\* C13 as claimed: once a remote request of a call has failed, the call
\* issues no further remote request, except for the forced retry of
\* delete_store_document and the turns of the poll loop.
C13_OneShot ==
    [][(SomeRequestFailed /\ IssuesRequest) => (ForcedRetryStep \/ PollStep)]_vars

\* C13 amended: once a remote request of a call has failed, the call issues
\* no further remote request, except for the forced retry of
\* delete_store_document, the turns of the poll loop, and
\* import_file_to_store trying its second endpoint after the first one
\* answered with an error status.
C13_OneShotButFallback ==
    [][(SomeRequestFailed /\ IssuesRequest) =>
          (ForcedRetryStep \/ PollStep \/ FallbackStep)]_vars

C13_Witness ==
    /\ op = "create_file_search_store"
    /\ pc = "done"
    /\ Len(reqs) = 1
    /\ FailedResponse(reqs[1].response)
    /\ ReturnedFailure

----------------------------------------------------------------------------
(* Properties of the choice between the native and the transport path      *)

\* positions of a call that only the transport path has
TransportLabels == {"delete_force", "import_post", "list_page", "poll", "sleep"}

\* the call has taken the transport path / the native path
UsedTransport == reqs # <<>> \/ HasPolled \/ pc \in TransportLabels
UsedNative == sdk_calls # <<>>

InCall == op \in PublicOperations

\* the caller supplied a pagination control (a page token, a page size, or
\* the request for all pages)
PaginationControls ==
    CASE op = "list_file_search_stores" -> ~IsNone(args.page_token) \/ args.all_pages
      [] op = "list_documents_in_store" -> ~IsNone(args.page_token) \/ ~IsNone(args.page_size)
      [] OTHER -> FALSE

\* the call went, or is going, to the remote service
Remote == UsedTransport \/ UsedNative

\* the dispatch policy for the operations in `ops`
FollowsPolicy(ops) ==
    (InCall /\ op \in ops) =>
        /\ (native /\ ~PaginationControls) => (~UsedTransport /\ (pc = "done" /\ Remote => UsedNative))
        /\ UsedTransport => (~native \/ PaginationControls)

\* the operations that are written against the HTTP endpoints only
TransportOnly == {"delete_store_document", "search_with_file_search", "search_with_grounding"}

\* C14 as claimed: every operation uses the native path when the native
\* interface is available and no pagination control is supplied, and uses
\* the transport path only when the interface is unavailable or a pagination
\* control is supplied.
C14_NativeWhenAvailable == FollowsPolicy(PublicOperations)

\* C14 amended: that holds of every operation except delete_store_document,
\* search_with_file_search and search_with_grounding, which use the
\* transport path in every call, whether or not the native interface is
\* available.
C14_NativeWhenImplemented ==
    /\ FollowsPolicy(PublicOperations \ TransportOnly)
    /\ (InCall /\ op \in TransportOnly) => (UsedTransport /\ ~UsedNative)

C14_Witness ==
    /\ op = "list_file_search_stores"
    /\ pc = "done"
    /\ native
    /\ ~PaginationControls
    /\ UsedNative
    /\ ~UsedTransport
    /\ ReturnedSuccess

\* the call takes the native path if `natively`, the transport path if not
TakesNativePathIff(natively) ==
    /\ UsedNative <=> natively
    /\ UsedTransport <=> ~natively

\* C15: list_documents_in_store takes the transport path whenever page_size
\* or page_token is given (any value other than None, also 0 and ""), and
\* otherwise the native path if the native interface is available;
\* list_file_search_stores takes the native path exactly when the native
\* interface is available, it is given no page token and all_pages is not
\* requested.
C15_ListingPaths ==
    /\ op = "list_documents_in_store" =>
          TakesNativePathIff(native /\ IsNone(args.page_size) /\ IsNone(args.page_token))
    /\ op = "list_file_search_stores" =>
          TakesNativePathIff(native /\ ~Truthy(args.page_token) /\ ~args.all_pages)

C15_Witness ==
    /\ op = "list_documents_in_store"
    /\ native
    /\ args.page_size = PyInt(0)
    /\ IsNone(args.page_token)
    /\ UsedTransport
    /\ ~UsedNative
    /\ ReturnedSuccess

\* the pagination arguments of the call, for the operations that take any
Pagination ==
    CASE op = "list_file_search_stores" ->
            [page_token |-> args.page_token, all_pages |-> args.all_pages]
      [] op = "list_documents_in_store" ->
            [page_size |-> args.page_size, page_token |-> args.page_token]
      [] OTHER -> [no_pagination |-> TRUE]

FileOperations == {"upload_file", "delete_file", "list_files", "get_file"}

\* a choice of path that looks at nothing but the operation, the
\* availability of the native interface and the pagination arguments
SelectedPath(operation, available, pagination) ==
    CASE operation \in TransportOnly -> "transport"
      [] operation \in FileOperations -> "native"
      [] operation = "list_file_search_stores" ->
            IF available /\ ~Truthy(pagination.page_token) /\ ~pagination.all_pages
            THEN "native" ELSE "transport"
      [] operation = "list_documents_in_store" ->
            IF available /\ IsNone(pagination.page_size) /\ IsNone(pagination.page_token)
            THEN "native" ELSE "transport"
      [] OTHER -> IF available THEN "native" ELSE "transport"

\* the path the call in progress is on
PathTaken == IF UsedNative THEN "native" ELSE "transport"

\* a call begins in this step
CallBegins == pc = "idle" /\ pc' # "idle"

\* C16: the path of a call is a function of the operation, the availability
\* of the native interface and the pagination arguments alone, so two calls
\* that agree on these take the same path; no step of a call changes the
\* adapter's state (its client's capability, its credential); and the step
\* that selects the path issues no request besides the first one of the
\* path selected.
C16_SelectionDeterministic ==
    /\ []((InCall /\ Remote) =>
            /\ PathTaken = SelectedPath(op, native, Pagination)
            /\ ~(UsedNative /\ UsedTransport))
    /\ [][native' = native /\ api_key' = api_key]_vars
    /\ [][CallBegins =>
            /\ Len(reqs') + Len(sdk_calls') <= 1
            /\ polled' = NoPoll]_vars

C16_Witness ==
    /\ op = "list_documents_in_store"
    /\ api_key \in {k \in ApiKeys : _is_bearer_token(k)}
    /\ native
    /\ Pagination = [page_size |-> None, page_token |-> None]
    /\ pc = "done"
    /\ PathTaken = "native"
    /\ ~UsedTransport

----------------------------------------------------------------------------
(* Properties of the credential                                            *)

\* every _rest_request of the call so far, the polls' included
TransportRequests ==
    {reqs[i].request : i \in 1..Len(reqs)} \cup (IF HasPolled THEN {polled.request} ELSE {})

\* the credential begins with "bearer ", in any letter case
BeginsWithBearer == Len(api_key) > 0 /\ api_key[1] \in {"bearer ", "Bearer ", "BEARER "}

\* where a request that was sent carries the credential
InQuery(request) == {p \in request.sent.params : p[2] = PyStr(api_key)}
InHeaders(request) == {h \in request.sent.headers : h[2] = PyStr(api_key)}

\* C17: every transport request carries the credential in exactly one place:
\* a credential that begins with "bearer " (in any letter case) is the value
\* of the Authorization header and of no query parameter; any other
\* credential is the value of the query parameter 'key' and of no header.
C17_CredentialInOnePlace ==
    \A request \in TransportRequests :
        IF BeginsWithBearer
        THEN /\ InHeaders(request) = {<<"Authorization", PyStr(api_key)>>}
             /\ InQuery(request) = {}
             /\ \A p \in request.sent.params : p[1] # "key"
        ELSE /\ InQuery(request) = {<<"key", PyStr(api_key)>>}
             /\ InHeaders(request) = {}
             /\ \A h \in request.sent.headers : h[1] # "Authorization"

C17_Witness ==
    /\ BeginsWithBearer
    /\ api_key[1] # "bearer "
    /\ op = "delete_store_document"
    /\ Len(reqs) = 2
    /\ \A i \in 1..2 : InHeaders(reqs[i].request) = {<<"Authorization", PyStr(api_key)>>}
    /\ reqs[2].request.sent.params = {<<"force", PyStr(<<"true">>)>>}
-----------------------------------------------------------------------------
(* Citations of a search response                                          *)

\* the (source, text) pair of a returned citation entry, an absent field
\* being None
CitationPair(entry) == <<Get(entry, "source", None), Get(entry, "text", None)>>

\* the citations of the search result just returned
ReturnedCitations == outcome.returned.citations.list

SearchReturned == op = "search_with_file_search" /\ ReturnedSuccess

\* the (source, text) pairs the dictionaries of a list of the response carry
\* under the given text aliases, each taken from ctx(item)
PairsOf(items, ctx(_), text_keys) ==
    {<<_pick(ctx(items[i]), SourceKeys), _pick(ctx(items[i]), text_keys)>> :
        i \in {j \in DOMAIN items : IsDict(items[j]) /\ IsDict(ctx(items[j]))}}

\* the pairs of the citation list of the response's first candidate
CitationListPairs ==
    LET candidate == first_candidate(FirstResponse.json)
        meta == Or(Or(Get(candidate, "citationMetadata", None),
                      Get(candidate, "citation_metadata", None)), EmptyDict)
        items == Or(Get(meta, "citations", None), PyList(<<>>)).list
        same(item) == item
    IN  PairsOf(items, same, <<"snippet", "text", "content", "title">>)

\* the pairs of the grounding-chunk list of the response's first candidate
GroundingChunkPairs ==
    LET candidate == first_candidate(FirstResponse.json)
        grounding == Or(Or(Get(candidate, "groundingMetadata", None),
                           Get(candidate, "grounding_metadata", None)), EmptyDict)
        items == Or(Or(Get(grounding, "groundingChunks", None),
                       Get(grounding, "grounding_chunks", None)), PyList(<<>>)).list
        context(item) == Or(Or(Get(item, "retrievedContext", None),
                               Get(item, "retrieved_context", None)), EmptyDict)
    IN  PairsOf(items, context, <<"text", "snippet", "content", "title">>)

InBothLists ==
    IF IsNone(first_candidate(FirstResponse.json)) THEN {}
    ELSE {pair \in CitationListPairs \cap GroundingChunkPairs :
             Truthy(pair[1]) \/ Truthy(pair[2])}

\* two pairs agree, an empty source or text counting as an absent one
SamePair(p, q) ==
    /\ Or(p[1], PyStr(<<>>)) = Or(q[1], PyStr(<<>>))
    /\ Or(p[2], PyStr(<<>>)) = Or(q[2], PyStr(<<>>))

\* C18: the citations of a search result hold no two entries with the same
\* (source, text) pair, and a pair (of a source and a text of which one at
\* least is not empty) found in both the citation list and the grounding-chunk
\* list of the response's first candidate yields exactly one entry
C18_CitationsDeduplicated ==
    SearchReturned =>
        /\ \A i, j \in DOMAIN ReturnedCitations :
              CitationPair(ReturnedCitations[i]) = CitationPair(ReturnedCitations[j]) => i = j
        /\ \A pair \in InBothLists :
              Cardinality({i \in DOMAIN ReturnedCitations :
                              SamePair(CitationPair(ReturnedCitations[i]), pair)}) = 1

\* a search has returned three citations or more from a response that repeats
\* a pair within the citation list and carries two pairs in both lists
C18_Witness ==
    /\ SearchReturned
    /\ Len(ReturnedCitations) >= 3
    /\ <<PyStr(<<"doc1">>), PyStr(<<"s1">>)>> \in InBothLists
    /\ <<PyStr(<<"doc1">>), None>> \in InBothLists
    /\ <<None, None>> \in CitationListPairs \cap GroundingChunkPairs

-----------------------------------------------------------------------------
(* Aliases of a field in a transport response                              *)

\* the spellings of the fields of a store resource, in the order the lookup
\* lists them
StoreAliases ==
    [display_name |-> <<"displayName", "display_name">>,
     active_documents_count |->
        <<"activeDocumentCount", "activeDocumentsCount", "active_documents_count">>,
     pending_documents_count |->
        <<"pendingDocumentCount", "pendingDocumentsCount", "pending_documents_count">>,
     failed_documents_count |->
        <<"failedDocumentCount", "failedDocumentsCount", "failed_documents_count">>,
     size_bytes |-> <<"sizeBytes", "size_bytes">>]

\* what a value found under an alias becomes in the normalized record
Normalized(field, value) ==
    IF field = "display_name" THEN value ELSE _as_int(value, PyInt(0))

\* get_file_search_store has answered from a store resource of the transport
StoreNormalized ==
    /\ op = "get_file_search_store"
    /\ ReturnedSuccess
    /\ Len(reqs) = 1
    /\ IsDict(FirstResponse.json)

\* the places in the alias list of the aliases the record holds
Held(record, aliases) == {i \in DOMAIN aliases : aliases[i] \in DOMAIN record.dict}

\* ... and of those it holds with a value that is not null
HeldNotNull(record, aliases) ==
    {i \in Held(record, aliases) : ~IsNone(record.dict[aliases[i]])}

First(places) == CHOOSE i \in places : \A j \in places : i <= j

SeveralValues(record, aliases) ==
    Cardinality({record.dict[aliases[i]] : i \in Held(record, aliases)}) >= 2

\* C19 as stated: of several aliases of one field held with different values,
\* the one listed first gives the normalized value
C19_FirstListedAliasWins ==
    StoreNormalized =>
        \A field \in DOMAIN StoreAliases :
            LET record == FirstResponse.json
                aliases == StoreAliases[field]
            IN  SeveralValues(record, aliases) =>
                    outcome.returned[field] =
                        Normalized(field, record.dict[aliases[First(Held(record, aliases))]])

\* C19: of several aliases of one field held with different values, the one
\* listed first among those whose value is not null gives the normalized
\* value, whatever the order of the keys in the record
C19_FirstListedNonNullAliasWins ==
    StoreNormalized =>
        \A field \in DOMAIN StoreAliases :
            LET record == FirstResponse.json
                aliases == StoreAliases[field]
                notnull == HeldNotNull(record, aliases)
            IN  SeveralValues(record, aliases) /\ notnull # {} =>
                    outcome.returned[field] =
                        Normalized(field, record.dict[aliases[First(notnull)]])

\* a store resource whose body lists the aliases in the reverse of the lookup
\* order has been normalized: activeDocumentCount: 5 won over 9 and 7, and the
\* null pendingDocumentCount gave way to pending_documents_count: 4
C19_Witness ==
    /\ StoreNormalized
    /\ FirstResponse.text = KeysInOrder(Reverse(RestStoreD))
    /\ FirstResponse.json.dict.activeDocumentsCount = PyInt(9)
    /\ outcome.returned.active_documents_count = PyInt(5)
    /\ outcome.returned.pending_documents_count = PyInt(4)
    /\ outcome.returned.display_name = PyStr(<<"D">>)

-----------------------------------------------------------------------------
(* Fields missing from a transport response                                *)

\* the spellings of the optional fields of a store resource that are no
\* numbers
StoreOptionalAliases ==
    [store_name |-> <<"name", "store_name", "storeName">>,
     display_name |-> <<"displayName", "display_name">>,
     create_time |-> <<"createTime", "create_time">>,
     update_time |-> <<"updateTime", "update_time">>]

StoreNumericFields ==
    {"active_documents_count", "pending_documents_count", "failed_documents_count",
     "size_bytes"}

\* the spellings of the fields of a document resource
DocumentOptionalAliases ==
    [document_name |-> <<"name", "document_name", "documentName">>,
     display_name |-> <<"displayName", "display_name">>,
     mime_type |-> <<"mimeType", "mime_type">>,
     create_time |-> <<"createTime", "create_time">>,
     update_time |-> <<"updateTime", "update_time">>,
     file_id |-> <<"file", "fileId", "file_id", "fileName", "file_name", "source">>]

DocumentNumericAliases == [size_bytes |-> <<"sizeBytes", "size_bytes">>]

\* the record holds the field under none of its aliases, a null counting as
\* nothing held
Missing(record, aliases) == HeldNotNull(record, aliases) = {}

\* list_documents_in_store has answered from a page of the transport
DocumentsNormalized ==
    /\ op = "list_documents_in_store"
    /\ ReturnedSuccess
    /\ Len(reqs) = 1

\* the document resources of that page, in the page's order
PageDocuments == SelectSeq(page_documents(FirstResponse.json).list, IsDict)

ReturnedDocuments == outcome.returned.documents.list

\* C20: a numeric field (the three document counters, size_bytes) that a
\* store or document resource of the transport holds under none of its aliases
\* is 0 in the normalized record, and an optional field that is no number and
\* is missing is null there
C20_MissingFieldsDefault ==
    /\ StoreNormalized =>
          /\ \A field \in StoreNumericFields :
                Missing(FirstResponse.json, StoreAliases[field]) =>
                    outcome.returned[field] = PyInt(0)
          /\ \A field \in DOMAIN StoreOptionalAliases :
                Missing(FirstResponse.json, StoreOptionalAliases[field]) =>
                    IsNone(outcome.returned[field])
    /\ DocumentsNormalized =>
          /\ Len(ReturnedDocuments) = Len(PageDocuments)
          /\ \A i \in DOMAIN ReturnedDocuments :
                /\ \A field \in DOMAIN DocumentNumericAliases :
                      Missing(PageDocuments[i], DocumentNumericAliases[field]) =>
                          ReturnedDocuments[i].dict[field] = PyInt(0)
                /\ \A field \in DOMAIN DocumentOptionalAliases :
                      Missing(PageDocuments[i], DocumentOptionalAliases[field]) =>
                          IsNone(ReturnedDocuments[i].dict[field])

\* a page whose first document holds neither a size nor a MIME type nor a
\* time under any alias has been normalized
C20_Witness ==
    /\ DocumentsNormalized
    /\ Len(PageDocuments) >= 1
    /\ Missing(PageDocuments[1], DocumentNumericAliases.size_bytes)
    /\ Missing(PageDocuments[1], DocumentOptionalAliases.mime_type)
    /\ Missing(PageDocuments[1], DocumentOptionalAliases.update_time)
    /\ ReturnedDocuments[1].dict.size_bytes = PyInt(0)
    /\ IsNone(ReturnedDocuments[1].dict.mime_type)

-----------------------------------------------------------------------------
(* MIME type of an upload on the transport path                            *)

\* upload_and_import_to_store has sent its multipart request
UploadSent == op = "upload_and_import_to_store" /\ Len(reqs) >= 1

SentFileName == reqs[1].request.files.file.name.str
SentMimeType == reqs[1].request.files.file.mime_type

IsMarkdownName(file_name) ==
    \E e \in {".md", ".MD", ".Md", ".markdown", ".Markdown", ".MARKDOWN"} :
        extension_of(file_name) = e

\* C21: the transport upload sends the plain-text type for a file name whose
\* extension is .md or .markdown in any letter case, whatever the type guesser
\* returns for it; for any other name it sends what the guesser returns, or
\* application/octet-stream when the guesser returns nothing
C21_MarkdownIsPlainText ==
    UploadSent =>
        IF IsMarkdownName(SentFileName)
        THEN SentMimeType = PyStr(<<"text/plain">>)
        ELSE \E guessed \in guess_type(SentFileName) :
                SentMimeType = IF IsNone(guessed) THEN PyStr(<<"application/octet-stream">>)
                               ELSE guessed

\* a file named notes.MD, for which the guesser returns a Markdown type or
\* nothing but never the plain-text type, has been sent
C21_Witness ==
    /\ UploadSent
    /\ SentFileName = <<"notes", ".MD">>
    /\ PyStr(<<"text/plain">>) \notin guess_type(SentFileName)
    /\ SentMimeType = PyStr(<<"text/plain">>)
    /\ pc = "done"

-----------------------------------------------------------------------------
(* A store created and then fetched                                        *)

\* get_file_search_store has fetched the store the previous call created
FetchedCreated ==
    /\ op = "get_file_search_store"
    /\ created # NotCreated
    /\ ReturnedSuccess

\* C22: a store created with create_file_search_store and then fetched with
\* get_file_search_store under the returned store_name has the display name
\* supplied at creation, on the native path and on the transport path
C22_DisplayNameRoundTrip ==
    FetchedCreated => outcome.returned.display_name = PyStr(created.supplied)

\* a store created under a name with blanks around it has been fetched over
\* the transport
C22_Witness ==
    /\ FetchedCreated
    /\ ~native
    /\ created.supplied = <<" padded ">>
    /\ outcome.returned.display_name = PyStr(<<" padded ">>)
    /\ outcome.returned.store_name = PyStr(created.store_name)

----------------------------------------------------------------------------
(* Properties of the error log                                             *)

\* the last entry the call has logged
LastLogged == logs[Len(logs)]

EndsWith(text, suffix) ==
    /\ Len(suffix) <= Len(text)
    /\ SubSeq(text, Len(text) - Len(suffix) + 1, Len(text)) = suffix

\* the exception the remote exchange of the call ended with, if it ended with one
RemoteExceptions ==
    {r \in (IF HasPolled THEN {polled.response}
            ELSE IF reqs # <<>> THEN {LastExchange.response} ELSE {}) : IsTransportExc(r)}

\* C23: a public operation that has returned success:false has logged the
\* failure at error level by the time it returns, the log entry ends with the
\* text of the error field, and the error field is the message of the
\* exception when the remote exchange raised one.
C23_FailuresLogged ==
    (op \in PublicOperations /\ ReturnedFailure) =>
        /\ logs # <<>>
        /\ LastLogged.level = "error"
        /\ IsStr(outcome.returned.error)
        /\ EndsWith(LastLogged.message, outcome.returned.error.str)
        /\ \A r \in RemoteExceptions : outcome.returned.error = PyStr(r.msg)

C23_Witness ==
    /\ ReturnedFailure
    /\ op = "upload_and_import_to_store"
    /\ reqs = <<>>
    /\ LastLogged = [level |-> "error", message |-> <<"File not found: ">> \o args.file_path]
    /\ outcome.returned.error = PyStr(<<"File not found: ">> \o args.file_path)

\* a failure of the remote service, logged with the operation's own prefix
C23_RemoteWitness ==
    /\ op \in PublicOperations
    /\ ReturnedFailure
    /\ RemoteExceptions # {}
    /\ Len(LastLogged.message) > Len(outcome.returned.error.str)

----------------------------------------------------------------------------
(* Properties of two calls at a time                                       *)

\* the calls in progress in the process: the running one and the one set aside
Handles == {handle} \cup (IF other = NoHandle THEN {} ELSE {other})

\* the answers a call has received, in order
Responses(exchanges) == [i \in DOMAIN exchanges |-> exchanges[i].response]

RECURSIVE listing_alone(_, _, _)
\* how the page loop ends when it runs from the locals l, by itself, against
\* the answers `responses` (still pending when they do not take it to its end)
listing_alone(all_pages, l, responses) ==
    IF responses = <<>> THEN Pending
    ELSE LET turn == page_turn(all_pages, l, Head(responses))
         IN  IF "ends" \in DOMAIN turn THEN [returned |-> turn.ends.returned]
             ELSE listing_alone(all_pages, turn.goes_on, Tail(responses))

\* the call of h lists the stores over the transport
ListsByTransport(h) == h.op = "list_file_search_stores" /\ h.sdk_calls = <<>>

----------------------------------------------------------------------------
(* Properties of a rejected delete_file_search_store                       *)

\* delete_file_search_store has ended after the service answered its DELETE
\* with a status other than 200 and 204
StoreDeleteRejected ==
    /\ op = "delete_file_search_store"
    /\ pc = "done"
    /\ reqs # <<>>
    /\ IsHttp(LastExchange.response)
    /\ LastExchange.response.status \notin {200, 204}

\* the error message of the response r: error.message of its JSON body, None
\* when the body holds none
SentMessage(r) ==
    IF /\ r.json # InvalidJson
       /\ IsDict(r.json)
       /\ "error" \in DOMAIN r.json.dict
       /\ IsDict(r.json.dict.error)
       /\ "message" \in DOMAIN r.json.dict.error.dict
    THEN r.json.dict.error.dict.message
    ELSE None

DeleteFailedText(text) == <<"Delete failed: ">> \o text

\* C25: a delete_file_search_store the service rejected returns success:false
\* and its error is "Delete failed: " followed by the error message of the
\* response when the response holds one; an error made of the raw text of
\* the response, or of "HTTP <status>", occurs only for a response without a
\* message, the status only when the text is empty as well.
C25_ServerMessageSurfaced ==
    StoreDeleteRejected =>
        LET r == LastExchange.response
            sent == SentMessage(r)
            error == outcome.returned.error.str
        IN  /\ ReturnedFailure
            /\ Truthy(sent) => error = DeleteFailedText(StrOf(sent))
            /\ (~Truthy(sent) /\ StartsWith(error, "Delete failed: ")) =>
                  error = DeleteFailedText(IF r.text # <<>> THEN r.text
                                           ELSE <<"HTTP ", ToString(r.status)>>)
            /\ error = DeleteFailedText(<<"HTTP ", ToString(r.status)>>) =>
                  ~Truthy(sent) /\ r.text = <<>>

C25_Witness ==
    /\ StoreDeleteRejected
    /\ LastExchange.response.status = 404
    /\ SentMessage(LastExchange.response) = PyStr(<<"NOT_FOUND">>)
    /\ outcome.returned.error = PyStr(<<"Delete failed: ", "NOT_FOUND">>)

\* the fallbacks: the raw text of a body without a message, the status of an
\* empty body
C25_RawTextWitness ==
    /\ StoreDeleteRejected
    /\ SentMessage(LastExchange.response) = None
    /\ outcome.returned.error = PyStr(DeleteFailedText(LastExchange.response.text))

C25_StatusWitness ==
    /\ StoreDeleteRejected
    /\ LastExchange.response.text = <<>>
    /\ outcome.returned.error = PyStr(<<"Delete failed: ", "HTTP ", "404">>)

----------------------------------------------------------------------------
(* One record for one document, whichever interface listed it              *)

\* the document d2 of the store holds a name and a file and nothing else: the
\* native interface yields it as the object of NativeDocs whose other
\* attributes are None, the transport as the resource RestDocB
DocumentD2 == <<"fileSearchStores/", "s1", "/documents/", "d2">>

\* list_documents_in_store has returned its documents
DocumentsListed == op = "list_documents_in_store" /\ ReturnedSuccess

\* C26: the record list_documents_in_store returns for one document is the
\* same, field by field, whether the native interface or the transport
\* listed it: the document that has neither size nor times comes back with
\* size_bytes 0 and null times on both.
C26_SameRecordOnBothPaths ==
    DocumentsListed =>
        \A i \in DOMAIN ReturnedDocuments :
            ReturnedDocuments[i].dict.document_name = PyStr(DocumentD2) =>
                /\ DOMAIN ReturnedDocuments[i].dict = DOMAIN _normalize_document(RestDocB).dict
                /\ ReturnedDocuments[i] = _normalize_document(RestDocB)

\* the two paths agree on the fields a record has
C26_SameFieldsOnBothPaths ==
    DocumentsListed =>
        \A i \in DOMAIN ReturnedDocuments :
            DOMAIN ReturnedDocuments[i].dict = DOMAIN _normalize_document(RestDocB).dict

\* the native listing of the document: no size and the text of None as times
C26_NativeRecord ==
    /\ DocumentsListed
    /\ sdk_calls # <<>>
    /\ Len(ReturnedDocuments) = 1
    /\ ReturnedDocuments[1].dict.document_name = PyStr(DocumentD2)
    /\ ReturnedDocuments[1].dict.size_bytes = None
    /\ ReturnedDocuments[1].dict.create_time = PyStr(<<"None">>)
    /\ _normalize_document(RestDocB).dict.size_bytes = PyInt(0)
    /\ _normalize_document(RestDocB).dict.create_time = None

----------------------------------------------------------------------------
(* The alias lookup                                                        *)

\* the fields of a document record that are the lookup's result as it is
LookedUpFields == {"document_name", "display_name", "mime_type"}

\* C27: the alias lookup passes over an alias the record holds with null: a
\* field of a normalized document that is the lookup's own result is the
\* value of the first listed alias the resource holds with a value that is
\* not null, and null only when it holds no alias with such a value.
C27_NullAliasSkipped ==
    DocumentsNormalized =>
        \A i \in DOMAIN ReturnedDocuments : \A field \in LookedUpFields :
            LET aliases == DocumentOptionalAliases[field]
                notnull == HeldNotNull(PageDocuments[i], aliases)
                found == ReturnedDocuments[i].dict[field]
            IN  /\ notnull # {} => found = PageDocuments[i].dict[aliases[First(notnull)]]
                /\ IsNone(found) <=> notnull = {}

\* a document held displayName: null and display_name: "notes.md", and the
\* lookup gave "notes.md"
C27_Witness ==
    /\ DocumentsNormalized
    /\ Len(PageDocuments) = 1
    /\ "displayName" \in DOMAIN PageDocuments[1].dict
    /\ IsNone(PageDocuments[1].dict.displayName)
    /\ ReturnedDocuments[1].dict.display_name = PyStr(<<"notes.md">>)
    /\ ReturnedDocuments[1].dict.mime_type = PyStr(<<"text/plain">>)

----------------------------------------------------------------------------
(* A listing of all pages that fails on a later page                       *)

\* the request for a page did not give a page: the transport raised, the
\* status is an error, or the body is no JSON object with a list of stores
PageFailed(r) ==
    \/ IsTransportExc(r)
    \/ ~Ok(r)
    \/ r.json = InvalidJson
    \/ ~IsDict(r.json)
    \/ ~IsList(page_stores(r.json))

\* the stores of the pages the call has received, junk entries included
RECURSIVE ItemsReceived(_)
ItemsReceived(exchanges) ==
    IF exchanges = <<>> THEN <<>>
    ELSE LET r == Head(exchanges).response
         IN  (IF PageFailed(r) THEN <<>> ELSE page_stores(r.json).list)
                 \o ItemsReceived(Tail(exchanges))

\* a list_file_search_stores over all pages has ended on a page that failed
\* after it had received at least one page
LaterPageFailed ==
    /\ op = "list_file_search_stores"
    /\ args.all_pages
    /\ pc = "done"
    /\ Len(reqs) >= 2
    /\ PageFailed(LastExchange.response)

\* C28: when a page request of list_file_search_stores with all_pages fails
\* after one or more pages were fetched, the call returns success:false with
\* an error and an empty stores list and nothing else: no store of the
\* earlier pages, no count, no token.
C28_NoPartialListing ==
    LaterPageFailed =>
        /\ ReturnedFailure
        /\ DOMAIN outcome.returned = {"success", "error", "stores"}
        /\ outcome.returned.stores = PyList(<<>>)

\* the first page held stores, the second request failed
C28_Witness ==
    /\ LaterPageFailed
    /\ Len(reqs) = 2
    /\ Len(ItemsReceived(reqs)) >= 1
    /\ IsTransportExc(LastExchange.response)
    /\ outcome.returned.stores = PyList(<<>>)

----------------------------------------------------------------------------
(* When import_file_to_store goes on to its second endpoint                *)

\* the answer to the first POST of the import
FirstAnswer == reqs[1].response

\* the first endpoint answered with a status that response.ok accepts
FirstAccepted == IsHttp(FirstAnswer) /\ FirstAnswer.status < 400

\* the polling of the operation ended the call with a failure
PollingFailed == pc = "done" /\ HasPolled /\ ReturnedFailure

\* C29: on the transport path import_file_to_store POSTs to its second
\* endpoint only after the first answered with an error status: when the
\* first POST raises the call ends there with success:false, and once the
\* first endpoint has accepted the import no second POST follows, whether
\* the polling of its operation succeeds, fails or runs out of time.
C29_FallbackOnlyAfterRefusal ==
    (InImport /\ reqs # <<>>) =>
        /\ Len(reqs) >= 2 => IsHttp(FirstAnswer) /\ FirstAnswer.status >= 400
        /\ IsTransportExc(FirstAnswer) =>
              /\ Len(reqs) = 1
              /\ ReturnedFailure
              /\ outcome.returned.error = PyStr(FirstAnswer.msg)
        /\ FirstAccepted => Len(reqs) = 1
        /\ (FirstAccepted /\ pc = "done" /\ HasPolled /\ IsTransportExc(polled.response)) =>
              ReturnedFailure

\* the first endpoint accepted the import and the polling ran out of time
C29_Witness ==
    /\ InImport
    /\ Len(reqs) = 1
    /\ FirstAccepted
    /\ PollingFailed
    /\ Contains(outcome.returned.error.str, " did not complete within ")

\* the polling itself failed, and the first POST raised
C29_PollRaisedWitness ==
    /\ InImport /\ Len(reqs) = 1 /\ FirstAccepted /\ PollingFailed
    /\ IsTransportExc(polled.response)

C29_PostRaisedWitness ==
    /\ InImport /\ Len(reqs) = 1 /\ IsTransportExc(FirstAnswer) /\ ReturnedFailure

----------------------------------------------------------------------------
(* The loop over all pages                                                 *)

\* a list_file_search_stores over all pages has sent at least one request
InAllPages == op = "list_file_search_stores" /\ args.all_pages /\ reqs # <<>>

\* the request for the latest page gave a page that carries a token
MorePages ==
    /\ ~PageFailed(LastExchange.response)
    /\ Truthy(ServerToken(LastExchange.response))

\* C30: with all_pages each request after the first carries exactly the
\* token of the page before it, and the loop has ended if and only if the
\* latest request failed or gave a page without a token: it goes on as long
\* as the pages carry tokens, with no count of its own.
C30_LoopFollowsTokens ==
    InAllPages =>
        /\ \A i \in 2..Len(reqs) :
              /\ Truthy(ServerToken(reqs[i - 1].response))
              /\ reqs[i].request.params = {<<"pageToken", ServerToken(reqs[i - 1].response)>>}
        /\ pc = "done" <=> ~MorePages
        /\ pc # "done" => pc = "list_page"

\* the loop went through as many pages as the listing has, sending the token
\* of the first page and then the different token of the second
C30_Witness ==
    /\ InAllPages
    /\ pc = "done"
    /\ Len(reqs) = MaxPages
    /\ ReturnedSuccess
    /\ \A i \in 2..Len(reqs) :
          reqs[i].request.params = {<<"pageToken", ServerToken(reqs[i - 1].response)>>}
    /\ ServerToken(reqs[1].response) # ServerToken(reqs[2].response)
    /\ reqs[1].request.params # reqs[2].request.params

====
